---- MODULE Spec2Model ----
(***************************************************************************)
(* ABI-to-action-schema compiler (lib/abi-to-mcp), the schema and          *)
(* description endpoints, and the contract-server invocation dispatcher.   *)
(*                                                                         *)
(* Conventions                                                             *)
(*  - A JS object is a record/function over its own keys; an optional key  *)
(*    that was never assigned is absent from the DOMAIN.                   *)
(*  - A JSON text is [kind, json]: the text that parses to json, kind the   *)
(*    kind of that value; a text that does not parse is MalformedText.     *)
(*    A call that threw yields Thrown(message).                            *)
(*  - A string the code builds by concatenation and later searches with    *)
(*    String.includes is a sequence of pieces (the literals and the        *)
(*    interpolated values, in order).  Names and type tags are identifiers *)
(*    of the interface definition, so a searched phrase that contains      *)
(*    blanks can only occur inside one literal piece.                      *)
(*  - Solidity type tags are strings; String.includes / String.replace on  *)
(*    them are tabulated for the tags of SolTypes.                         *)
(***************************************************************************)
EXTENDS Integers, Sequences, FiniteSets, TLC

VARIABLES
    contracts,    \* the SmartContract table, in insertion order
    req,          \* the request being answered
    res,          \* the response sent for req: [status, json]
    remoteCalls,  \* remote contract calls performed while answering req
    editor        \* the state of the description editor component, if mounted

vars == <<contracts, req, res, remoteCalls, editor>>

-----------------------------------------------------------------------------
(* Bounds *)

MaxContracts == 2
MaxAbiLen == 2
MaxComponents == 2

-----------------------------------------------------------------------------
(* JS / JSON helpers *)

\* the outcome of a call that threw: no text, only the Error's message
Thrown(msg) == [kind |-> "throw", message |-> msg]
IsThrown(x) == DOMAIN x = {"kind", "message"}

\* JSON texts, by the kind of value they parse to
MalformedText == [kind |-> "malformed"]
ArrayText(v) == [kind |-> "array", json |-> v]
ObjectText(v) == [kind |-> "object", json |-> v]

\* JSON.stringify of an array value (no element of the compiled schemas is
\* undefined, so no key is dropped)
JSONstringify(v) == ArrayText(v)
\* JSON.parse of a text that parses
JSONparse(text) == text.json
ParseThrows(text) == text.kind = "malformed"

Range(s) == {s[i] : i \in DOMAIN s}

RECURSIVE Join(_, _)
\* pieces.join(sep), each element itself a sequence of pieces
Join(parts, sep) ==
    IF Len(parts) = 0 THEN <<>>
    ELSE IF Len(parts) = 1 THEN parts[1]
    ELSE parts[1] \o <<sep>> \o Join(Tail(parts), sep)


-----------------------------------------------------------------------------
(* Solidity type tags *)

SolTypes ==
    {"uint256", "uint8", "int256", "address", "bool", "string", "bytes32",
     "uint256[]", "uint256[][]", "tuple", "tuple[]", "tuple[][]",
     "function", "function[]", "function[][]"}

\* the probes of solTypeToJsonType / generateParamDescription that occur in a tag
Substrings(t) ==
    CASE t = "uint256"      -> {"int", "uint256"}
      [] t = "uint8"        -> {"int"}
      [] t = "int256"       -> {"int"}
      [] t = "address"      -> {"address"}
      [] t = "bool"         -> {"bool"}
      [] t = "string"       -> {"string"}
      [] t = "bytes32"      -> {"bytes"}
      [] t = "uint256[]"    -> {"int", "uint256", "[]"}
      [] t = "uint256[][]"  -> {"int", "uint256", "[]"}
      [] t = "tuple"        -> {}
      [] t = "tuple[]"      -> {"[]"}
      [] t = "tuple[][]"    -> {"[]"}
      [] t = "function"     -> {}
      [] t = "function[]"   -> {"[]"}
      [] t = "function[][]" -> {"[]"}

includes(t, probe) == probe \in Substrings(t)

\* t.replace('[]', ''): the first occurrence only
replaceArrayMarker(t) ==
    CASE t = "uint256[]"   -> "uint256"
      [] t = "uint256[][]" -> "uint256[]"
      [] t = "tuple[]"     -> "tuple"
      [] t = "tuple[][]"   -> "tuple[]"
      [] t = "function[]"  -> "function"
      [] t = "function[][]" -> "function[]"
      [] OTHER             -> t

solTypeToJsonType(solType) ==
    IF includes(solType, "int") THEN "integer"
    ELSE IF includes(solType, "bool") THEN "boolean"
    ELSE IF includes(solType, "address") THEN "string"
    ELSE IF includes(solType, "string") THEN "string"
    ELSE IF includes(solType, "bytes") THEN "string"
    ELSE IF includes(solType, "[]") THEN "array"
    ELSE "string"

generateParamDescription(name, type) ==
    IF includes(type, "address") THEN <<"Ethereum address for ", name>>
    ELSE IF includes(type, "uint256") THEN <<"Numeric value for ", name>>
    ELSE IF includes(type, "bool") THEN <<"Boolean flag for ", name>>
    ELSE IF includes(type, "string") THEN <<"String value for ", name>>
    ELSE IF includes(type, "bytes") THEN <<"Bytes data for ", name>>
    ELSE <<"Parameter ", name, " of type ", type>>

-----------------------------------------------------------------------------
(* Interface definition (ABI) values *)

Field(name, type) == [name |-> name, type |-> type, components |-> <<>>]
Struct(name, type, components) == [name |-> name, type |-> type, components |-> components]

Fn(name, inputs, outputs, mut) ==
    [type |-> "function", name |-> name, inputs |-> inputs, outputs |-> outputs,
     stateMutability |-> mut]

Event(name, inputs) ==
    [type |-> "event", name |-> name, inputs |-> inputs, outputs |-> <<>>,
     stateMutability |-> "undefined"]

ReadOnlyMarker == "does not modify blockchain state"

\* the literal pieces in which the phrase occurs
PieceIncludes(piece, phrase) ==
    /\ phrase = ReadOnlyMarker
    /\ piece = ". This function does not modify blockchain state."

\* description.includes(phrase)
descriptionIncludes(description, phrase) ==
    \E i \in DOMAIN description : PieceIncludes(description[i], phrase)

\* a generator that marks view entries only
generateFunctionDescriptionViewOnly(func) ==
    LET paramList == Join([i \in DOMAIN func.inputs |->
                             <<func.inputs[i].name, " (", func.inputs[i].type, ")">>], ", ")
        returnList == Join([i \in DOMAIN func.outputs |->
                             <<IF func.outputs[i].name # "" THEN func.outputs[i].name ELSE "return",
                               " (", func.outputs[i].type, ")">>], ", ")
    IN  <<"Calls the ", func.name, " function">>
        \o (IF Len(func.inputs) > 0 THEN <<" with parameters: ">> \o paramList ELSE <<>>)
        \o (IF Len(func.outputs) > 0 THEN <<". Returns: ">> \o returnList ELSE <<>>)
        \o (IF func.stateMutability = "view"
              THEN <<". This function does not modify blockchain state.">>
            ELSE IF func.stateMutability = "payable"
              THEN <<". This function can receive Ether.">>
            ELSE <<". This function may modify blockchain state.">>)

generateFunctionDescription(func) ==
    LET paramList == Join([i \in DOMAIN func.inputs |->
                             <<func.inputs[i].name, " (", func.inputs[i].type, ")">>], ", ")
        returnList == Join([i \in DOMAIN func.outputs |->
                             <<IF func.outputs[i].name # "" THEN func.outputs[i].name ELSE "return",
                               " (", func.outputs[i].type, ")">>], ", ")
    IN  <<"Calls the ", func.name, " function">>
        \o (IF Len(func.inputs) > 0 THEN <<" with parameters: ">> \o paramList ELSE <<>>)
        \o (IF Len(func.outputs) > 0 THEN <<". Returns: ">> \o returnList ELSE <<>>)
        \o (IF func.stateMutability = "view" \/ func.stateMutability = "pure"
              THEN <<". This function does not modify blockchain state.">>
            ELSE IF func.stateMutability = "payable"
              THEN <<". This function can receive Ether.">>
            ELSE <<". This function may modify blockchain state.">>)

\* the value an object holds under key k after fields.forEach(f => obj[f.name] = val(f)):
\* the last field of that name wins
LastIndexOf(fields, k) ==
    CHOOSE i \in DOMAIN fields :
        /\ fields[i].name = k
        /\ \A j \in DOMAIN fields : fields[j].name = k => j <= i

RECURSIVE processABIParameter(_)
processABIParameter(param) ==
    LET name == IF param.name # "" THEN param.name ELSE "param"
        jsonType == solTypeToJsonType(param.type)
        isArr == includes(param.type, "[]")
        hasComponents == Len(param.components) > 0
        props == [k \in {param.components[i].name : i \in DOMAIN param.components} |->
                    processABIParameter(param.components[LastIndexOf(param.components, k)])]
        base == [name |-> name,
                 type |-> IF isArr THEN "array"
                          ELSE IF hasComponents THEN "object" ELSE jsonType,
                 description |-> generateParamDescription(name, param.type)]
    IN  IF hasComponents /\ isArr
          THEN base @@ [items |-> [type |-> "object", properties |-> props]]
        ELSE IF hasComponents
          THEN base @@ [properties |-> props]
        ELSE IF isArr
          THEN base @@ [items |-> [type |-> solTypeToJsonType(replaceArrayMarker(param.type))]]
        ELSE base

abiFunctionToMCPAction(func) ==
    [name |-> func.name,
     description |-> generateFunctionDescription(func),
     parameters |->
        [type |-> "object",
         properties |-> [k \in {func.inputs[i].name : i \in DOMAIN func.inputs} |->
                           processABIParameter(func.inputs[LastIndexOf(func.inputs, k)])],
         required |-> [i \in DOMAIN func.inputs |-> func.inputs[i].name]]]

\* an envelope that loses the description
mcpActionToGPTActionNoDescription(mcpAction) ==
    [type |-> "function",
     function |-> [name |-> mcpAction.name,
                   description |-> <<>>,
                   parameters |-> mcpAction.parameters]]

mcpActionToGPTAction(mcpAction) ==
    [type |-> "function",
     function |-> [name |-> mcpAction.name,
                   description |-> mcpAction.description,
                   parameters |-> mcpAction.parameters]]

\* the predicate of abi.filter in abiToMCPSchema
IsCompiledEntry(item) ==
    /\ item.type = "function"
    /\ ~(item.stateMutability = "view" /\ Len(item.inputs) = 0)

abiToMCPSchema(abiJson) ==
    \* JSON.parse throws on a malformed text, abi.filter on a non-array value
    IF ParseThrows(abiJson) \/ abiJson.kind # "array"
      THEN Thrown("Failed to convert ABI to MCP schema")
      ELSE LET abi == JSONparse(abiJson)
               functions == SelectSeq(abi, IsCompiledEntry)
               mcpActions == [i \in DOMAIN functions |-> abiFunctionToMCPAction(functions[i])]
             IN  JSONstringify(mcpActions)

abiToGPTActionSchema(abiJson) ==
    LET mcpText == abiToMCPSchema(abiJson)
    IN  IF IsThrown(mcpText) THEN Thrown("Failed to convert ABI to GPT Action schema")
        ELSE LET mcpSchema == JSONparse(mcpText)
                 gptActions == [i \in DOMAIN mcpSchema |-> mcpActionToGPTAction(mcpSchema[i])]
             IN  JSONstringify(gptActions)

-----------------------------------------------------------------------------
(* Sample interface entries *)

EntryPool ==
    {Event("Transfer", <<Field("from", "address"), Field("value", "uint256")>>),
     Fn("balanceOf", <<Field("owner", "address")>>, <<Field("", "uint256")>>, "view"),
     Fn("totalSupply", <<>>, <<Field("", "uint256")>>, "view"),
     Fn("version", <<>>, <<Field("", "string")>>, "pure"),
     Fn("transfer", <<Field("to", "address"), Field("amount", "uint256")>>,
        <<Field("", "bool")>>, "nonpayable"),
     Fn("transfer", <<Field("to", "address")>>, <<>>, "nonpayable"),
     Fn("pause", <<>>, <<>>, "nonpayable"),
     Fn("deposit", <<>>, <<>>, "payable"),
     Fn("allowance", <<Field("", "address"), Field("", "address")>>,
        <<Field("", "uint256")>>, "view"),
     Fn("fill", <<Struct("order", "tuple", <<Field("maker", "address"),
                                             Field("amounts", "uint256[]")>>),
                  Field("ids", "uint256[][]")>>,
        <<Field("filled", "uint256[][]")>>, "pure")}

\* every interface definition of at most MaxAbiLen entries of the pool
AllAbis == UNION {[1..n -> EntryPool] : n \in 0..MaxAbiLen}

Erc20Abi ==
    <<Event("Transfer", <<Field("from", "address"), Field("value", "uint256")>>),
      Fn("balanceOf", <<Field("owner", "address")>>, <<Field("", "uint256")>>, "view"),
      Fn("totalSupply", <<>>, <<Field("", "uint256")>>, "view"),
      Fn("transfer", <<Field("to", "address"), Field("amount", "uint256")>>,
         <<Field("", "bool")>>, "nonpayable"),
      Fn("version", <<>>, <<Field("", "string")>>, "pure")>>

VaultAbi ==
    <<Fn("transfer", <<Field("to", "address")>>, <<>>, "nonpayable"),
      Fn("transfer", <<Field("to", "address"), Field("amount", "uint256")>>,
         <<Field("", "bool")>>, "nonpayable"),
      Fn("allowance", <<Field("", "address"), Field("", "address")>>,
         <<Field("", "uint256")>>, "view"),
      Fn("balanceOf", <<Field("owner", "address")>>, <<Field("ids", "uint256[]")>>, "view"),
      Fn("fill", <<Struct("order", "tuple", <<Field("maker", "address"),
                                              Field("amounts", "uint256[]")>>),
                   Field("ids", "uint256[][]")>>,
         <<Field("filled", "uint256[][]")>>, "pure"),
      Fn("deposit", <<>>, <<>>, "payable")>>

PausableAbi ==
    <<Fn("pause", <<>>, <<>>, "nonpayable"),
      Fn("balanceOf", <<Field("owner", "address")>>,
         <<Field("free", "uint256"), Field("label", "string")>>, "pure")>>

-----------------------------------------------------------------------------
(* Persistence: projects and the SmartContract table *)

NoUser == ""                       \* supabase.auth.getUser() found no user
Users == {"alice", "bob"}
ProjectOwner == [p1 |-> "alice", p2 |-> "bob"]   \* Project.userId by project id

Null == [kind |-> "null"]
EmptyObject == [k \in {} |-> ""]      \* {}

SampleOverrides ==
    [transfer |-> [description |-> <<"Send tokens">>,
                   inputs |-> [to |-> [description |-> <<"Recipient">>]]]]

\* prisma.smartContract.create: the optional columns start NULL
NewContract(id, name, address, abiJson, network, importMethod, projectId) ==
    [id |-> id, name |-> name, address |-> address, abiJson |-> abiJson,
     network |-> network, importMethod |-> importMethod, projectId |-> projectId,
     mcpSchema |-> Null, gptActionSchema |-> Null,
     customFunctionDescriptions |-> Null]

\* prisma.smartContract.findUnique({where: {id}}); ids are 1..Len(contracts)
findUnique(id) == IF id \in DOMAIN contracts THEN contracts[id] ELSE Null

toLowerCase(a) ==
    CASE a \in {"0xAb", "0xAB", "0xab"} -> "0xab"
      [] a \in {"0xCd", "0xcd"}         -> "0xcd"
      [] OTHER                          -> a

\* the lookup without mode: 'insensitive'
findFirstCaseSensitive(address) ==
    LET rows == {contracts[i] : i \in {j \in DOMAIN contracts : contracts[j].address = address}}
    IN  IF rows = {} THEN {Null} ELSE rows

\* prisma findFirst({where: {address: {equals, mode: 'insensitive'}}}) has no
\* orderBy: any matching row may be returned
findFirst(address) ==
    LET rows == {contracts[i] : i \in {j \in DOMAIN contracts :
                    toLowerCase(contracts[j].address) = toLowerCase(address)}}
    IN  IF rows = {} THEN {Null} ELSE rows

Response(status, json) == [status |-> status, json |-> json]
ErrorBody(msg) == [error |-> msg]
EmptyBody == [end |-> TRUE]         \* res.status(..).end()

\* no handler is running: the last response has been sent
NoRequest == [endpoint |-> "none"]
NoResponse == [status |-> 0, json |-> EmptyBody]
Idle == req = NoRequest

\* no description editor is mounted
NoEditor == [mounted |-> FALSE]

-----------------------------------------------------------------------------
(* pages/api/contracts/index.ts : create a contract *)

Erc20Body ==
    [projectId |-> "p1", importMethod |-> "manual", name |-> "Token",
     address |-> "0xAb", abiJson |-> ArrayText(Erc20Abi), network |-> "mainnet",
     etherscanLink |-> ""]
VaultBody ==
    [projectId |-> "p2", importMethod |-> "manual", name |-> "",
     address |-> "0xCd", abiJson |-> ArrayText(VaultAbi), network |-> "goerli",
     etherscanLink |-> ""]
EtherscanBody ==
    [projectId |-> "p1", importMethod |-> "etherscan", name |-> "",
     address |-> "0xAB", abiJson |-> Null, network |-> "sepolia",
     etherscanLink |-> "https://sepolia.etherscan.io/address/0xAB"]
BrokenBody ==
    [projectId |-> "p1", importMethod |-> "manual", name |-> "Broken",
     address |-> "0xCd", abiJson |-> ObjectText([note |-> "not an ABI"]),
     network |-> "polygon", etherscanLink |-> ""]

\* the Etherscan side of an import: whether ETHERSCAN_API_KEY is configured,
\* whether a request fails in transport, and the getabi / getsourcecode answers
Etherscan(apiKey, throws, abiStatus, message, sourceStatus, contractName) ==
    [apiKey |-> apiKey, throws |-> throws,
     abi |-> [status |-> abiStatus, message |-> message, result |-> ArrayText(PausableAbi)],
     source |-> [status |-> sourceStatus, message |-> message, ContractName |-> contractName]]

EtherscanAnswers ==
    <<Etherscan(TRUE, FALSE, "1", "OK", "1", "Pausable"),
      Etherscan(TRUE, FALSE, "1", "OK", "1", ""),
      Etherscan(TRUE, FALSE, "0", "NOTOK", "0", ""),
      Etherscan(TRUE, FALSE, "0", "", "0", ""),
      Etherscan(TRUE, FALSE, "1", "OK", "0", ""),
      Etherscan(TRUE, TRUE, "1", "OK", "1", ""),
      Etherscan(FALSE, FALSE, "1", "OK", "1", "")>>

\* the handler's outcome: the response and the row to insert (Null: none)
createContractHandler(user, method, body, etherscan) ==
    LET none(r) == [res |-> r, row |-> Null]
        id == Len(contracts) + 1
        orUnknown(message) == IF message # "" THEN message ELSE "Unknown error"
    IN  IF user = NoUser THEN none(Response(401, ErrorBody("Unauthorized")))
        ELSE IF method # "POST" THEN none(Response(405, ErrorBody("Method not allowed")))
        ELSE IF body.projectId = "" THEN none(Response(400, ErrorBody("Project ID is required")))
        ELSE IF ProjectOwner[body.projectId] # user
          THEN none(Response(404, ErrorBody("Project not found")))
        ELSE IF body.importMethod = "etherscan" THEN
            IF body.etherscanLink = "" \/ body.address = "" \/ body.network = ""
              THEN none(Response(400, ErrorBody(
                     "Etherscan link, address, and network are required for Etherscan import")))
            ELSE IF ~etherscan.apiKey
              THEN none(Response(500, ErrorBody("Etherscan API key not configured")))
            ELSE IF etherscan.throws
              THEN none(Response(500, ErrorBody("Failed to fetch contract data from Etherscan")))
            ELSE IF etherscan.abi.status # "1"
              THEN none(Response(400, ErrorBody("Failed to fetch ABI: "
                                                \o orUnknown(etherscan.abi.message))))
            ELSE IF etherscan.source.status # "1"
              THEN none(Response(400, ErrorBody("Failed to fetch source code: "
                                                \o orUnknown(etherscan.source.message))))
            ELSE LET row == NewContract(id,
                                IF etherscan.source.ContractName # ""
                                  THEN etherscan.source.ContractName
                                  ELSE "Unnamed Contract",
                                body.address, etherscan.abi.result, body.network, "etherscan",
                                body.projectId)
                 IN  [res |-> Response(201, row), row |-> row]
        ELSE IF body.importMethod = "manual" THEN
            IF body.address = "" \/ body.abiJson = Null \/ body.network = ""
              THEN none(Response(400, ErrorBody(
                     "Address, ABI JSON, and network are required for manual import")))
            ELSE IF ParseThrows(body.abiJson)
              THEN none(Response(400, ErrorBody("Invalid ABI JSON format")))
            ELSE LET row == NewContract(id,
                                IF body.name # "" THEN body.name ELSE "Unnamed Contract",
                                body.address, body.abiJson, body.network, "manual",
                                body.projectId)
                 IN  [res |-> Response(201, row), row |-> row]
        ELSE none(Response(400, ErrorBody("Invalid import method")))

\* the Etherscan side varies only where the handler asks it
CreateRequests ==
    {<<"alice", "POST", Erc20Body, EtherscanAnswers[1]>>,
     <<"bob", "POST", VaultBody, EtherscanAnswers[1]>>,
     <<"alice", "POST", BrokenBody, EtherscanAnswers[1]>>,
     <<NoUser, "POST", Erc20Body, EtherscanAnswers[1]>>,
     <<"alice", "GET", Erc20Body, EtherscanAnswers[1]>>,
     <<"bob", "POST", Erc20Body, EtherscanAnswers[1]>>,
     <<"alice", "POST", [Erc20Body EXCEPT !.network = "polygon"], EtherscanAnswers[1]>>,
     <<"alice", "POST", [Erc20Body EXCEPT !.abiJson = MalformedText], EtherscanAnswers[1]>>,
     <<"alice", "POST", [Erc20Body EXCEPT !.abiJson = Null], EtherscanAnswers[1]>>,
     <<"alice", "POST", [Erc20Body EXCEPT !.projectId = ""], EtherscanAnswers[1]>>,
     <<"alice", "POST", [Erc20Body EXCEPT !.importMethod = "upload"], EtherscanAnswers[1]>>,
     <<"alice", "POST", [EtherscanBody EXCEPT !.etherscanLink = ""], EtherscanAnswers[1]>>}
    \cup {<<"alice", "POST", EtherscanBody, EtherscanAnswers[i]>> : i \in DOMAIN EtherscanAnswers}

CreateContract ==
    /\ Idle
    /\ UNCHANGED editor
    /\ Len(contracts) < MaxContracts
    /\ \E c \in CreateRequests :
           LET out == createContractHandler(c[1], c[2], c[3], c[4])
           IN  /\ req' = [endpoint |-> "contracts", method |-> c[2], user |-> c[1],
                          body |-> c[3]]
               /\ res' = out.res
               /\ contracts' = IF out.row = Null THEN contracts ELSE Append(contracts, out.row)
               /\ remoteCalls' = <<>>

-----------------------------------------------------------------------------
(* pages/api/contracts/[id]/generate-schemas.ts *)

\* a handler that persists the Dialect-A schema alone
generateSchemasHandlerMcpOnly(user, method, id) ==
    LET same(r) == [res |-> r, table |-> contracts]
        contract == findUnique(id)
    IN  IF user = NoUser THEN same(Response(401, ErrorBody("Unauthorized")))
        ELSE IF method # "POST" THEN same(Response(405, ErrorBody("Method not allowed")))
        ELSE IF id = 0 THEN same(Response(400, ErrorBody("Contract ID is required")))
        ELSE IF contract = Null THEN same(Response(404, ErrorBody("Contract not found")))
        ELSE IF ProjectOwner[contract.projectId] # user
          THEN same(Response(403, ErrorBody("You do not have permission to access this contract")))
        ELSE LET mcpSchema == abiToMCPSchema(contract.abiJson)
                 gptActionSchema == abiToGPTActionSchema(contract.abiJson)
             IN  IF IsThrown(mcpSchema)
                   THEN same(Response(500, ErrorBody("Failed to generate schemas")))
                   ELSE [res |-> Response(200, [id |-> id, mcpSchema |-> mcpSchema,
                                                gptActionSchema |-> gptActionSchema]),
                         table |-> [contracts EXCEPT ![id] =
                                      [contract EXCEPT !.mcpSchema = mcpSchema]]]

\* the handler's outcome: the response and the table after it
generateSchemasHandler(user, method, id) ==
    LET same(r) == [res |-> r, table |-> contracts]
        contract == findUnique(id)
    IN  IF user = NoUser THEN same(Response(401, ErrorBody("Unauthorized")))
        ELSE IF method # "POST" THEN same(Response(405, ErrorBody("Method not allowed")))
        ELSE IF id = 0 THEN same(Response(400, ErrorBody("Contract ID is required")))
        ELSE IF contract = Null THEN same(Response(404, ErrorBody("Contract not found")))
        ELSE IF ProjectOwner[contract.projectId] # user
          THEN same(Response(403, ErrorBody("You do not have permission to access this contract")))
        ELSE LET mcpSchema == abiToMCPSchema(contract.abiJson)
                 gptActionSchema == abiToGPTActionSchema(contract.abiJson)
             IN  IF IsThrown(mcpSchema) \/ IsThrown(gptActionSchema)
                   THEN same(Response(500, ErrorBody("Failed to generate schemas")))
                   ELSE [res |-> Response(200, [id |-> id, mcpSchema |-> mcpSchema,
                                                gptActionSchema |-> gptActionSchema]),
                         table |-> [contracts EXCEPT ![id] =
                                      [contract EXCEPT !.mcpSchema = mcpSchema,
                                                       !.gptActionSchema = gptActionSchema]]]

\* request ids: 0 is a missing id, Len(contracts) + 1 an id of no row
GenerateRequests ==
    {<<user, "POST", id>> : user \in Users \cup {NoUser}, id \in 0..(Len(contracts) + 1)}
    \cup {<<"alice", "GET", 1>>}

GenerateSchemas ==
    /\ Idle
    /\ UNCHANGED editor
    /\ \E g \in GenerateRequests :
           LET out == generateSchemasHandler(g[1], g[2], g[3])
           IN  /\ req' = [endpoint |-> "generate-schemas", method |-> g[2], user |-> g[1],
                          id |-> g[3]]
               /\ res' = out.res
               /\ contracts' = out.table
               /\ remoteCalls' = <<>>

-----------------------------------------------------------------------------
(* pages/api/contracts/[id]/descriptions.ts *)

\* a description endpoint that does not compare the project's user
descriptionsHandlerAnyUser(user, method, id, body) ==
    LET same(r) == [res |-> r, table |-> contracts]
        contract == findUnique(id)
    IN  IF user = NoUser THEN same(Response(401, ErrorBody("Unauthorized")))
        ELSE IF id = 0 THEN same(Response(400, ErrorBody("Contract ID is required")))
        ELSE IF method = "GET" THEN
            IF contract = Null THEN same(Response(404, ErrorBody("Contract not found")))
            ELSE same(Response(200, [customFunctionDescriptions |->
                        IF contract.customFunctionDescriptions = Null THEN EmptyObject
                        ELSE contract.customFunctionDescriptions]))
        ELSE IF method = "PUT" THEN
            IF body.customFunctionDescriptions = Null
              THEN same(Response(400, ErrorBody("Custom function descriptions are required")))
            ELSE IF contract = Null THEN same(Response(404, ErrorBody("Contract not found")))
            ELSE [res |-> Response(200, [id |-> id, customFunctionDescriptions |->
                                           body.customFunctionDescriptions]),
                  table |-> [contracts EXCEPT ![id].customFunctionDescriptions =
                               body.customFunctionDescriptions]]
        ELSE same(Response(405, ErrorBody("Method not allowed")))

\* the handler's outcome: the response and the table after it, GET and PUT
descriptionsHandler(user, method, id, body) ==
    LET same(r) == [res |-> r, table |-> contracts]
        contract == findUnique(id)
    IN  IF user = NoUser THEN same(Response(401, ErrorBody("Unauthorized")))
        ELSE IF id = 0 THEN same(Response(400, ErrorBody("Contract ID is required")))
        ELSE IF method = "GET" THEN
            IF contract = Null THEN same(Response(404, ErrorBody("Contract not found")))
            ELSE IF ProjectOwner[contract.projectId] # user
              THEN same(Response(403, ErrorBody(
                     "You do not have permission to access this contract")))
            ELSE same(Response(200, [customFunctionDescriptions |->
                        IF contract.customFunctionDescriptions = Null THEN EmptyObject
                        ELSE contract.customFunctionDescriptions]))
        ELSE IF method = "PUT" THEN
            IF body.customFunctionDescriptions = Null
              THEN same(Response(400, ErrorBody("Custom function descriptions are required")))
            ELSE IF contract = Null THEN same(Response(404, ErrorBody("Contract not found")))
            ELSE IF ProjectOwner[contract.projectId] # user
              THEN same(Response(403, ErrorBody(
                     "You do not have permission to modify this contract")))
            ELSE [res |-> Response(200, [id |-> id, customFunctionDescriptions |->
                                           body.customFunctionDescriptions]),
                  table |-> [contracts EXCEPT ![id].customFunctionDescriptions =
                               body.customFunctionDescriptions]]
        ELSE same(Response(405, ErrorBody("Method not allowed")))

DescriptionRequests ==
    {<<user, "PUT", id, [customFunctionDescriptions |-> SampleOverrides]>> :
        user \in Users \cup {NoUser}, id \in 0..(Len(contracts) + 1)}
    \cup {<<user, "GET", id, [customFunctionDescriptions |-> Null]>> :
        user \in Users, id \in 1..(Len(contracts) + 1)}
    \cup {<<"alice", "PUT", 1, [customFunctionDescriptions |-> Null]>>,
          <<"alice", "POST", 1, [customFunctionDescriptions |-> Null]>>}

Descriptions ==
    /\ Idle
    /\ UNCHANGED editor
    /\ \E d \in DescriptionRequests :
           LET out == descriptionsHandler(d[1], d[2], d[3], d[4])
           IN  /\ req' = [endpoint |-> "descriptions", method |-> d[2], user |-> d[1],
                          id |-> d[3], body |-> d[4]]
               /\ res' = out.res
               /\ contracts' = out.table
               /\ remoteCalls' = <<>>

-----------------------------------------------------------------------------
(* pages/api/contracts/[id].ts *)

\* a rename that also clears the Dialect-B column
contractHandlerDroppingGpt(user, method, id, body) ==
    LET same(r) == [res |-> r, table |-> contracts]
        contract == findUnique(id)
    IN  IF user = NoUser THEN same(Response(401, ErrorBody("Unauthorized")))
        ELSE IF id = 0 THEN same(Response(400, ErrorBody("Invalid contract ID")))
        ELSE IF contract = Null THEN same(Response(404, ErrorBody("Contract not found")))
        ELSE IF ProjectOwner[contract.projectId] # user
          THEN same(Response(403, ErrorBody("Unauthorized access to this contract")))
        ELSE IF method = "GET" THEN same(Response(200, contract))
        ELSE IF method = "PUT" THEN
            LET updatedContract ==
                    [contract EXCEPT !.name = IF "name" \in DOMAIN body THEN body.name ELSE @,
                                     !.gptActionSchema = Null]
            IN  [res |-> Response(200, updatedContract),
                 table |-> [contracts EXCEPT ![id] = updatedContract]]
        ELSE IF method = "DELETE"
          THEN [res |-> Response(204, EmptyBody), table |-> [contracts EXCEPT ![id] = Null]]
        ELSE same(Response(405, ErrorBody("Method not allowed")))

\* the handler's outcome: the response and the table after it.  A deleted row
\* keeps its place in the table as Null, so that its id is never given to
\* another row and findUnique finds nothing under it.
contractHandler(user, method, id, body) ==
    LET same(r) == [res |-> r, table |-> contracts]
        contract == findUnique(id)
    IN  IF user = NoUser THEN same(Response(401, ErrorBody("Unauthorized")))
        ELSE IF id = 0 THEN same(Response(400, ErrorBody("Invalid contract ID")))
        ELSE IF contract = Null THEN same(Response(404, ErrorBody("Contract not found")))
        ELSE IF ProjectOwner[contract.projectId] # user
          THEN same(Response(403, ErrorBody("Unauthorized access to this contract")))
        ELSE IF method = "GET" THEN same(Response(200, contract))
        ELSE IF method = "PUT" THEN
            \* data: {name}: prisma leaves a column set to undefined as it is
            LET updatedContract ==
                    [contract EXCEPT !.name = IF "name" \in DOMAIN body THEN body.name ELSE @]
            IN  [res |-> Response(200, updatedContract),
                 table |-> [contracts EXCEPT ![id] = updatedContract]]
        ELSE IF method = "DELETE"
          THEN [res |-> Response(204, EmptyBody), table |-> [contracts EXCEPT ![id] = Null]]
        ELSE same(Response(405, ErrorBody("Method not allowed")))

ContractRequests ==
    {<<user, "PUT", id, [name |-> "Renamed"]>> :
        user \in Users \cup {NoUser}, id \in 0..(Len(contracts) + 1)}
    \cup {<<user, method, id, EmptyObject>> :
        user \in Users, method \in {"GET", "DELETE"}, id \in 1..Len(contracts)}
    \cup {<<"alice", "PUT", 1, EmptyObject>>,
          <<"alice", "POST", 1, [name |-> "Renamed"]>>}

ContractRoute ==
    /\ Idle
    /\ UNCHANGED editor
    /\ \E c \in ContractRequests :
           LET out == contractHandler(c[1], c[2], c[3], c[4])
           IN  /\ req' = [endpoint |-> "contracts/[id]", method |-> c[2], user |-> c[1],
                          id |-> c[3], body |-> c[4]]
               /\ res' = out.res
               /\ contracts' = out.table
               /\ remoteCalls' = <<>>

-----------------------------------------------------------------------------
(* ethers: values a contract call returns, and BigNumber formatting *)

BigNumber(n) == [t |-> "BigNumber", n |-> n]
Str(v) == [t |-> "string", v |-> v]
Bool(v) == [t |-> "boolean", v |-> v]
Arr(v) == [t |-> "array", v |-> v]
Obj(v) == [t |-> "object", v |-> v]

isBigNumber(x) == x.t = "BigNumber"
isArray(x) == x.t = "array"

Digits == <<"0", "1", "2", "3", "4", "5", "6", "7", "8", "9",
            "a", "b", "c", "d", "e", "f">>

RECURSIVE Numeral(_, _)
Numeral(n, radix) ==
    IF n < radix THEN Digits[n + 1]
    ELSE Numeral(n \div radix, radix) \o Digits[(n % radix) + 1]

\* BigNumber.toHexString: "0x" and an even number of hex digits
toHexString(x) ==
    LET h == Numeral(x.n, 16)
    IN  "0x" \o (IF Len(h) % 2 = 1 THEN "0" \o h ELSE h)

\* BigNumber.toString: decimal
toString(x) == Numeral(x.n, 10)

\* ethers.utils.formatUnits(x, 0): the whole part, no fraction
formatUnits0(x) == Numeral(x.n, 10)

formatBigNumber(x) ==
    Obj([type |-> "BigNumber", hex |-> toHexString(x), decimal |-> toString(x),
         formatted |-> formatUnits0(x)])

\* the "Format the result" block of the handler
formatResult(result) ==
    IF isBigNumber(result) THEN formatBigNumber(result)
    ELSE IF isArray(result)
      THEN Arr([i \in DOMAIN result.v |->
                  IF isBigNumber(result.v[i]) THEN formatBigNumber(result.v[i])
                  ELSE result.v[i]])
    ELSE result

\* sample decoded values of an output type
DecodedValues(type) ==
    CASE type = "uint256"     -> {BigNumber(0), BigNumber(255)}
      [] type = "uint8"       -> {BigNumber(7)}
      [] type = "bool"        -> {Bool(TRUE)}
      [] type = "string"      -> {Str("v1.0")}
      [] type = "address"     -> {Str("0xAb")}
      [] type = "bytes32"     -> {Str("0x00")}
      [] type = "uint256[]"   -> {Arr(<<>>), Arr(<<BigNumber(1), BigNumber(4096)>>)}
      [] type = "uint256[][]" -> {Arr(<<Arr(<<BigNumber(1)>>), Arr(<<>>)>>)}
      [] OTHER                -> {Arr(<<>>)}

\* what awaiting contractInstance[action](...) yields for a function fragment:
\* a single output is unwrapped, several outputs come as an array, and the
\* call may throw
CallOutcomes(fn) ==
    {Thrown("call revert exception")} \cup
    (IF Len(fn.outputs) = 1 THEN DecodedValues(fn.outputs[1].type)
     ELSE {Arr([i \in DOMAIN fn.outputs |->
                  CHOOSE v \in DecodedValues(fn.outputs[i].type) : TRUE])})

\* ethers Contract: the positions of the function fragments named `name`
\* in the interface definition
FragmentsNamed(abiJson, name) ==
    IF abiJson.kind # "array" THEN {}
    ELSE LET abi == JSONparse(abiJson)
         IN  {i \in DOMAIN abi : abi[i].type = "function" /\ abi[i].name = name}

Signature(fn) == <<fn.name, [i \in DOMAIN fn.inputs |-> fn.inputs[i].type]>>

\* contractInstance.functions[name] is defined for a bare name only when one
\* signature carries that name (ethers does not attach ambiguous names)
functions(abiJson, name) ==
    Cardinality({Signature(JSONparse(abiJson)[i]) : i \in FragmentsNamed(abiJson, name)}) = 1

NoOutcome == [kind |-> "none"]

\* the promise of the remote call has not settled
Pending == [kind |-> "pending"]

\* the outcomes the remote call of `name` can have on this contract
OutcomesFor(contract, name) ==
    IF contract = Null \/ ~functions(contract.abiJson, name) THEN {NoOutcome}
    ELSE UNION {CallOutcomes(JSONparse(contract.abiJson)[i]) :
                  i \in FragmentsNamed(contract.abiJson, name)}

\* a table that knows the primary network alone
rpcUrlPrimaryOnly(network) == "MAINNET_RPC_URL"

\* the static network -> RPC endpoint table, mainnet when unrecognized
rpcUrl(network) ==
    IF network = "mainnet" THEN "MAINNET_RPC_URL"
    ELSE IF network = "goerli" THEN "GOERLI_RPC_URL"
    ELSE IF network = "sepolia" THEN "SEPOLIA_RPC_URL"
    ELSE "MAINNET_RPC_URL"

-----------------------------------------------------------------------------
(* Request bodies *)

JsonObject(f) == [kind |-> "object", json |-> f]
JsonNull == [kind |-> "null"]
JsonString(v) == [kind |-> "string", json |-> v]

\* params[param] === undefined, for a body that allows property access
\* (argument names are identifiers that Object.prototype does not define)
isUndefined(params, param) ==
    ~(params.kind = "object" /\ param \in DOMAIN params.json)

\* params[param] throws a TypeError when params is null
accessThrows(params) == params.kind = "null"

toUpperCase(schemaType) ==
    CASE schemaType = "mcp" -> "MCP"
      [] schemaType = "gpt" -> "GPT"

SimulationMessage ==
    "This is a simulation of a state-changing operation. In a production environment, this would require a signer with ETH to pay for gas."

Reply(response, calls) == [res |-> response, calls |-> calls]

-----------------------------------------------------------------------------
(* pages/api/contract-server/[address]/[action].ts, from ActionLookup on.     *)
(* pages/api/contract-server/index.ts lines 105-241 are the same text.        *)

\* a handler without the outer catch: the framework answers for it
unexpectedErrorEscaping(message) ==
    Reply(Response(500, EmptyBody), <<>>)

unexpectedError(message) ==
    Reply(Response(500, [error |-> "An unexpected error occurred", details |-> message]), <<>>)

\* "Find the requested action in the schema"
findActionSchema(schemaType, parsedSchema, action) ==
    \* Array.prototype.find: the first matching element, undefined when none
    LET hits == IF schemaType = "mcp"
                  THEN SelectSeq(parsedSchema, LAMBDA item : item.name = action)
                  ELSE SelectSeq(parsedSchema,
                                 LAMBDA item : "function" \in DOMAIN item
                                               /\ item.function.name = action)
    IN  IF hits = <<>> THEN Null
        ELSE IF schemaType = "mcp" THEN hits[1]
        ELSE hits[1].function

\* a validation that reports the first missing name only
missingParamsFirstOnly(requiredParams, params) ==
    LET missing == SelectSeq(requiredParams, LAMBDA param : isUndefined(params, param))
    IN  IF missing = <<>> THEN <<>> ELSE <<missing[1]>>

\* "Validate required parameters": requiredParams.filter(...)
missingParamsOf(requiredParams, params) ==
    SelectSeq(requiredParams, LAMBDA param : isUndefined(params, param))

\* "Determine if the function is read-only or state-changing"
isStateChanging(actionSchema) ==
    ~descriptionIncludes(actionSchema.description, ReadOnlyMarker)

\* a read that passes its arguments in the reverse of the required order
executeActionReversed(schemaType, action, params, parsedSchema, contract, outcome) ==
    LET actionSchema == findActionSchema(schemaType, parsedSchema, action)
        requiredParams == actionSchema.parameters.required
        missingParams == missingParamsOf(requiredParams, params)
        functionParams == [i \in DOMAIN requiredParams |->
                              params.json[requiredParams[Len(requiredParams) + 1 - i]]]
        call == [endpoint |-> rpcUrl(contract.network), address |-> contract.address,
                 function |-> action, args |-> functionParams, result |-> outcome]
    IN  IF actionSchema = Null
          THEN Reply(Response(404, ErrorBody("Action \"" \o action \o "\" not found")), <<>>)
        ELSE IF requiredParams # <<>> /\ accessThrows(params)
          THEN unexpectedError("Cannot read properties of null")
        ELSE IF Len(missingParams) > 0
          THEN Reply(Response(400, [error |-> "Missing required parameters",
                                    missingParams |-> missingParams]), <<>>)
        ELSE IF ParseThrows(contract.abiJson) \/ contract.abiJson.kind # "array"
          \* JSON.parse(contract.abiJson) or new ethers.Contract throws: inner catch
          THEN Reply(Response(500, [error |-> "Failed to call contract function \""
                                              \o action \o "\"",
                                    details |-> "invalid interface definition"]), <<>>)
        ELSE IF ~functions(contract.abiJson, action)
          THEN Reply(Response(404, ErrorBody("Function \"" \o action
                                             \o "\" not found on contract")), <<>>)
        ELSE IF isStateChanging(actionSchema)
          THEN Reply(Response(200, [simulation |-> TRUE,
                                    message |-> SimulationMessage,
                                    function |-> action,
                                    parameters |-> params,
                                    estimatedGas |-> "Not calculated in simulation mode"]),
                     <<>>)
        ELSE IF outcome = Pending
          THEN Reply(NoResponse, <<call>>)       \* awaiting contractInstance[action](...)
        ELSE IF IsThrown(outcome)
          THEN Reply(Response(500, [error |-> "Failed to call contract function \""
                                              \o action \o "\"",
                                    details |-> outcome.message]), <<call>>)
        ELSE Reply(Response(200, [success |-> TRUE,
                                  function |-> action,
                                  parameters |-> params,
                                  result |-> formatResult(outcome)]), <<call>>)

\* a read that calls a second time when the first call failed
executeActionRetrying(schemaType, action, params, parsedSchema, contract, outcome) ==
    LET actionSchema == findActionSchema(schemaType, parsedSchema, action)
        requiredParams == actionSchema.parameters.required
        missingParams == missingParamsOf(requiredParams, params)
        functionParams == [i \in DOMAIN requiredParams |-> params.json[requiredParams[i]]]
        call == [endpoint |-> rpcUrl(contract.network), address |-> contract.address,
                 function |-> action, args |-> functionParams, result |-> outcome]
    IN  IF actionSchema = Null
          THEN Reply(Response(404, ErrorBody("Action \"" \o action \o "\" not found")), <<>>)
        ELSE IF requiredParams # <<>> /\ accessThrows(params)
          THEN unexpectedError("Cannot read properties of null")
        ELSE IF Len(missingParams) > 0
          THEN Reply(Response(400, [error |-> "Missing required parameters",
                                    missingParams |-> missingParams]), <<>>)
        ELSE IF ParseThrows(contract.abiJson) \/ contract.abiJson.kind # "array"
          \* JSON.parse(contract.abiJson) or new ethers.Contract throws: inner catch
          THEN Reply(Response(500, [error |-> "Failed to call contract function \""
                                              \o action \o "\"",
                                    details |-> "invalid interface definition"]), <<>>)
        ELSE IF ~functions(contract.abiJson, action)
          THEN Reply(Response(404, ErrorBody("Function \"" \o action
                                             \o "\" not found on contract")), <<>>)
        ELSE IF isStateChanging(actionSchema)
          THEN Reply(Response(200, [simulation |-> TRUE,
                                    message |-> SimulationMessage,
                                    function |-> action,
                                    parameters |-> params,
                                    estimatedGas |-> "Not calculated in simulation mode"]),
                     <<>>)
        ELSE IF outcome = Pending
          THEN Reply(NoResponse, <<call>>)       \* awaiting contractInstance[action](...)
        ELSE IF IsThrown(outcome)
          THEN Reply(Response(500, [error |-> "Failed to call contract function \""
                                              \o action \o "\"",
                                    details |-> outcome.message]), <<call, call>>)
        ELSE Reply(Response(200, [success |-> TRUE,
                                  function |-> action,
                                  parameters |-> params,
                                  result |-> formatResult(outcome)]), <<call>>)

executeAction(schemaType, action, params, parsedSchema, contract, outcome) ==
    LET actionSchema == findActionSchema(schemaType, parsedSchema, action)
        requiredParams == actionSchema.parameters.required
        missingParams == missingParamsOf(requiredParams, params)
        functionParams == [i \in DOMAIN requiredParams |-> params.json[requiredParams[i]]]
        call == [endpoint |-> rpcUrl(contract.network), address |-> contract.address,
                 function |-> action, args |-> functionParams, result |-> outcome]
    IN  IF actionSchema = Null
          THEN Reply(Response(404, ErrorBody("Action \"" \o action \o "\" not found")), <<>>)
        ELSE IF requiredParams # <<>> /\ accessThrows(params)
          THEN unexpectedError("Cannot read properties of null")
        ELSE IF Len(missingParams) > 0
          THEN Reply(Response(400, [error |-> "Missing required parameters",
                                    missingParams |-> missingParams]), <<>>)
        ELSE IF ParseThrows(contract.abiJson) \/ contract.abiJson.kind # "array"
          \* JSON.parse(contract.abiJson) or new ethers.Contract throws: inner catch
          THEN Reply(Response(500, [error |-> "Failed to call contract function \""
                                              \o action \o "\"",
                                    details |-> "invalid interface definition"]), <<>>)
        ELSE IF ~functions(contract.abiJson, action)
          THEN Reply(Response(404, ErrorBody("Function \"" \o action
                                             \o "\" not found on contract")), <<>>)
        ELSE IF isStateChanging(actionSchema)
          THEN Reply(Response(200, [simulation |-> TRUE,
                                    message |-> SimulationMessage,
                                    function |-> action,
                                    parameters |-> params,
                                    estimatedGas |-> "Not calculated in simulation mode"]),
                     <<>>)
        ELSE IF outcome = Pending
          THEN Reply(NoResponse, <<call>>)       \* awaiting contractInstance[action](...)
        ELSE IF IsThrown(outcome)
          THEN Reply(Response(500, [error |-> "Failed to call contract function \""
                                              \o action \o "\"",
                                    details |-> outcome.message]), <<call>>)
        ELSE Reply(Response(200, [success |-> TRUE,
                                  function |-> action,
                                  parameters |-> params,
                                  result |-> formatResult(outcome)]), <<call>>)

\* the schema column the dialect selector picks
schemaOf(contract, schemaType) ==
    IF schemaType = "mcp" THEN contract.mcpSchema ELSE contract.gptActionSchema

\* pages/api/contract-server/[address]/[action].ts
actionRouteHandler(r, contract, outcome) ==
    IF r.method = "OPTIONS" THEN Reply(Response(200, EmptyBody), <<>>)
    ELSE IF r.method # "POST"
      THEN Reply(Response(405, ErrorBody("Method not allowed")), <<>>)
    ELSE IF r.address = ""
      THEN Reply(Response(400, ErrorBody("Contract address is required")), <<>>)
    ELSE IF r.action = ""
      THEN Reply(Response(400, ErrorBody("Action is required")), <<>>)
    ELSE IF r.schemaType \notin {"mcp", "gpt"}
      THEN Reply(Response(400, ErrorBody("Schema type must be either \"mcp\" or \"gpt\"")), <<>>)
    ELSE IF contract = Null
      THEN Reply(Response(404, ErrorBody("Contract not found")), <<>>)
    ELSE LET schema == schemaOf(contract, r.schemaType)
         IN  IF schema = Null
               THEN Reply(Response(404, ErrorBody(toUpperCase(r.schemaType)
                                          \o " schema not found for this contract")), <<>>)
             ELSE IF ParseThrows(schema) THEN unexpectedError("SyntaxError")
             ELSE executeAction(r.schemaType, r.action, r.body, JSONparse(schema),
                                contract, outcome)

\* the 200 body of a schema GET
schemaListing(contract, schemaType, parsedSchema) ==
    [contract |-> [address |-> contract.address, name |-> contract.name,
                   network |-> contract.network],
     schema |-> parsedSchema,
     availableActions |->
        [i \in DOMAIN parsedSchema |->
            LET func == IF schemaType = "gpt" THEN parsedSchema[i].function
                        ELSE parsedSchema[i]
            IN  [name |-> func.name, description |-> func.description,
                 parameters |-> func.parameters.required]]]

\* pages/api/contract-server/index.ts
queryRouteHandler(r, contract, outcome) ==
    IF r.method = "OPTIONS" THEN Reply(Response(200, EmptyBody), <<>>)
    ELSE IF r.method \notin {"GET", "POST"}
      THEN Reply(Response(405, ErrorBody("Method not allowed")), <<>>)
    ELSE IF r.address = ""
      THEN Reply(Response(400, ErrorBody("Contract address is required")), <<>>)
    ELSE IF r.schemaType \notin {"mcp", "gpt"}
      THEN Reply(Response(400, ErrorBody("Schema type must be either \"mcp\" or \"gpt\"")), <<>>)
    ELSE IF contract = Null
      THEN Reply(Response(404, ErrorBody("Contract not found")), <<>>)
    ELSE LET schema == schemaOf(contract, r.schemaType)
         IN  IF schema = Null
               THEN Reply(Response(404, ErrorBody(toUpperCase(r.schemaType)
                                          \o " schema not found for this contract")), <<>>)
             ELSE IF ParseThrows(schema) THEN unexpectedError("SyntaxError")
             ELSE IF r.method = "GET"
               THEN Reply(Response(200, schemaListing(contract, r.schemaType,
                                                      JSONparse(schema))), <<>>)
             ELSE IF r.action = ""
               THEN Reply(Response(400, ErrorBody("Action parameter is required")), <<>>)
             ELSE executeAction(r.schemaType, r.action, r.body, JSONparse(schema),
                                contract, outcome)

\* pages/api/contract-server/[address]/index.ts
addressRouteHandler(r, contract) ==
    IF r.method = "OPTIONS" THEN Reply(Response(200, EmptyBody), <<>>)
    ELSE IF r.method # "GET"
      THEN Reply(Response(405, ErrorBody("Method not allowed")), <<>>)
    ELSE IF r.address = ""
      THEN Reply(Response(400, ErrorBody("Contract address is required")), <<>>)
    ELSE IF r.schemaType \notin {"mcp", "gpt"}
      THEN Reply(Response(400, ErrorBody("Schema type must be either \"mcp\" or \"gpt\"")), <<>>)
    ELSE IF contract = Null
      THEN Reply(Response(404, ErrorBody("Contract not found")), <<>>)
    ELSE LET schema == schemaOf(contract, r.schemaType)
         IN  IF schema = Null
               THEN Reply(Response(404, ErrorBody(toUpperCase(r.schemaType)
                                          \o " schema not found for this contract")), <<>>)
             ELSE IF ParseThrows(schema) THEN unexpectedError("SyntaxError")
             ELSE Reply(Response(200, schemaListing(contract, r.schemaType,
                                                    JSONparse(schema))), <<>>)

-----------------------------------------------------------------------------
(* lib/generate-server.ts: the standalone server generated from a Dialect-A  *)
(* schema.  The generated source is modelled by what it declares and does:   *)
(* its interfaces, its GET routes and its POST routes in emission order.     *)

has(obj, key) == key \in DOMAIN obj

RECURSIVE getTypeScriptType(_)
\* the TypeScript type of a parameter descriptor, as its syntax tree
getTypeScriptType(param) ==
    LET fieldsOf(properties) ==
            [propName \in DOMAIN properties |->
                [optional |-> ~(has(properties[propName], "required")
                                /\ properties[propName].required = TRUE),
                 type |-> getTypeScriptType(properties[propName])]]
    IN  CASE param.type = "string" -> [ts |-> "string"]
          [] param.type \in {"integer", "number"} -> [ts |-> "number"]
          [] param.type = "boolean" -> [ts |-> "boolean"]
          [] param.type = "array" ->
                IF has(param, "items")
                  THEN IF param.items.type = "object" /\ has(param.items, "properties")
                         THEN [ts |-> "Array", of |-> [ts |-> "literal",
                                  fields |-> fieldsOf(param.items.properties)]]
                         ELSE [ts |-> "Array",
                               of |-> [ts |-> IF param.items.type = "integer"
                                                THEN "number" ELSE param.items.type]]
                  ELSE [ts |-> "any[]"]
          [] param.type = "object" ->
                IF has(param, "properties")
                  THEN [ts |-> "literal", fields |-> fieldsOf(param.properties)]
                  ELSE [ts |-> "Record<string, any>"]
          [] OTHER -> [ts |-> "any"]

\* actions.forEach(...) throws a TypeError on this element
interfaceThrows(action) ==
    \/ ~has(action, "name")                              \* action.name.charAt
    \/ ~has(action, "parameters")                        \* action.parameters.properties
    \/ ~has(action.parameters, "properties")             \* Object.entries(undefined)
    \/ /\ DOMAIN action.parameters.properties # {}       \* required.includes
       /\ ~has(action.parameters, "required")

\* actions.map(...) throws a TypeError on this element
routeThrows(action) ==
    \/ ~has(action, "description")                       \* description.includes
    \/ ~has(action.parameters, "required")               \* required.map

\* `interface <Name>Params { ... }` of one action
interfaceOf(action) ==
    [params |-> action.name,
     fields |-> [propName \in DOMAIN action.parameters.properties |->
                   [optional |-> \A i \in DOMAIN action.parameters.required :
                                    action.parameters.required[i] # propName,
                    type |-> getTypeScriptType(action.parameters.properties[propName])]]]

\* app.post('/contract/<name>', ...) as emitted for one action
postRoute(action) ==
    [method |-> "POST", path |-> "/contract/" \o action.name, name |-> action.name,
     requiredParams |-> action.parameters.required,
     isStateChanging |-> ~descriptionIncludes(action.description, ReadOnlyMarker)]

\* generateTypeScriptServer: the server source, or the Error its catch throws
generateTypeScriptServer(mcpSchema, contractAddress, contractName) ==
    IF ParseThrows(mcpSchema)                            \* JSON.parse
      THEN Thrown("Failed to generate TypeScript server")
    ELSE IF mcpSchema.kind # "array"                     \* actions.forEach is not a function
      THEN Thrown("Failed to generate TypeScript server")
    ELSE LET actions == JSONparse(mcpSchema)
         IN  IF \E i \in DOMAIN actions : interfaceThrows(actions[i])
               THEN Thrown("Failed to generate TypeScript server")
             ELSE IF \E i \in DOMAIN actions : routeThrows(actions[i])
               THEN Thrown("Failed to generate TypeScript server")
             ELSE [address |-> contractAddress,
                   name |-> IF contractName = "" THEN "SmartContract" ELSE contractName,
                   interfaces |-> [i \in DOMAIN actions |-> interfaceOf(actions[i])],
                   \* '/mcp-schema' and '/gpt-actions-schema'
                   gets |-> [mcp |-> actions,
                             gpt |-> [i \in DOMAIN actions |->
                                        [type |-> "function",
                                         function |-> [name |-> actions[i].name,
                                            description |-> actions[i].description,
                                            parameters |-> actions[i].parameters]]]],
                   posts |-> [i \in DOMAIN actions |-> postRoute(actions[i])]]

\* generateServerFiles: the artifact set; evaluating the object literal throws
\* when the server source cannot be generated
generateServerFiles(mcpSchema, contractAddress, contractName) ==
    LET source == generateTypeScriptServer(mcpSchema, contractAddress, contractName)
    IN  IF IsThrown(source) THEN source
        ELSE [index |-> source,
              Dockerfile |-> [generator |-> "generateDockerfile"],
              package |-> [generator |-> "generatePackageJson", contractName |-> contractName],
              tsconfig |-> [generator |-> "generateTsConfig"],
              README |-> [generator |-> "generateReadme", contractName |-> contractName]]

\* pages/api/contracts/[id]/generate-server.ts
generateServerHandler(user, method, id) ==
    LET contract == findUnique(id)
    IN  IF user = NoUser THEN Response(401, ErrorBody("Unauthorized"))
        ELSE IF method # "GET" THEN Response(405, ErrorBody("Method not allowed"))
        ELSE IF id = 0 THEN Response(400, ErrorBody("Contract ID is required"))
        ELSE IF contract = Null THEN Response(404, ErrorBody("Contract not found"))
        ELSE IF ProjectOwner[contract.projectId] # user
          THEN Response(403, ErrorBody("You do not have permission to access this contract"))
        ELSE IF contract.mcpSchema = Null
          THEN Response(400, ErrorBody(
                 "MCP schema not generated yet. Please generate schemas first."))
        ELSE LET serverFiles == generateServerFiles(contract.mcpSchema, contract.address,
                                    IF contract.name = "" THEN "SmartContract"
                                    ELSE contract.name)
             IN  IF IsThrown(serverFiles)
                   THEN Response(500, ErrorBody("Failed to generate server"))
                   ELSE Response(200, [success |-> TRUE, files |-> serverFiles])

\* the generated POST handler of one route, run against the interface
\* definition the operator entered as CONTRACT_ABI
scaffoldRoute(route, params, abiJson, address, outcome) ==
    LET requiredParams == route.requiredParams
        missingParams == SelectSeq(requiredParams, LAMBDA param : isUndefined(params, param))
        call == [endpoint |-> "RPC_URL", address |-> address, function |-> route.name,
                 args |-> [i \in DOMAIN requiredParams |-> params.json[requiredParams[i]]],
                 result |-> outcome]
        failed == Response(500, ErrorBody("Failed to call " \o route.name))
    IN  IF Len(missingParams) > 0
          THEN Reply(Response(400, [error |-> "Missing required parameters",
                                    missingParams |-> missingParams]), <<>>)
        ELSE IF route.isStateChanging
          THEN Reply(Response(501,
                 [error |-> "State-changing operations are not enabled in this demo server",
                  message |-> "To enable this functionality, configure a signer with a private key"]),
                 <<>>)
        ELSE IF ~functions(abiJson, route.name)          \* contract.<name> is not a function
          THEN Reply(failed, <<>>)
        ELSE IF outcome = Pending
          THEN Reply(NoResponse, <<call>>)               \* awaiting contract.<name>(...)
        ELSE IF IsThrown(outcome)
          THEN Reply(failed, <<call>>)
        ELSE Reply(Response(200, [success |-> TRUE, result |-> outcome]), <<call>>)

\* express routing of POST /contract/<name>: the first route registered for
\* the path answers; no route, and the framework answers 404
scaffoldServer(server, r, abiJson, outcome) ==
    LET hits == SelectSeq(server.posts, LAMBDA route : route.path = "/contract/" \o r.action)
    IN  IF hits = <<>>
          THEN Reply(Response(404, [html |-> "Cannot POST /contract/" \o r.action]), <<>>)
          ELSE scaffoldRoute(hits[1], r.body, abiJson, server.address, outcome)

-----------------------------------------------------------------------------
(* Dispatcher requests *)

\* an action name with an argument body
ActionBodies ==
    {<<"balanceOf", JsonObject([owner |-> "0x01"])>>,
     <<"balanceOf", JsonObject(EmptyObject)>>,
     <<"balanceOf", JsonNull>>,
     <<"transfer", JsonObject([to |-> "0x02", amount |-> "5"])>>,
     <<"transfer", JsonObject([amount |-> "5", memo |-> "hi"])>>,
     <<"transfer", JsonObject(EmptyObject)>>,
     <<"version", JsonObject(EmptyObject)>>,
     <<"pause", JsonString("")>>,
     <<"deposit", JsonNull>>,
     <<"fill", JsonObject([order |-> "o1", ids |-> "i1"])>>,
     <<"fill", JsonObject([ids |-> "i1"])>>,
     <<"fill", JsonObject([ids |-> "i1", memo |-> "hi", order |-> "o1"])>>,
     <<"allowance", JsonObject("" :> "0x03")>>,
     <<"allowance", JsonObject(EmptyObject)>>,
     <<"totalSupply", JsonObject(EmptyObject)>>}

Request(method, address, schemaType, ab) ==
    [method |-> method, address |-> address, schemaType |-> schemaType,
     action |-> ab[1], body |-> ab[2]]

\* POSTs to stored addresses in both dialects, and selector / address errors
PathRequests ==
    {Request("POST", a, t, ab) :
        a \in {"0xab", "0xcd"}, t \in {"mcp", "gpt"}, ab \in ActionBodies}
    \cup {Request(m, a, t, <<"transfer", JsonObject([to |-> "0x02", amount |-> "5"])>>) :
        m \in {"POST"}, a \in {"0xab", "0xEe"}, t \in {"mcp", "gpt", "xml", ""}}
    \cup {Request(m, "0xab", "mcp", <<"transfer", JsonObject(EmptyObject)>>) :
        m \in {"OPTIONS", "GET"}}

\* the query endpoint may also lack address and action
QueryRequests ==
    PathRequests
    \cup {Request("POST", a, t, <<"", JsonObject(EmptyObject)>>) :
            a \in {"", "0xab", "0xEe"}, t \in {"mcp", "xml"}}
    \cup {Request("GET", a, t, <<"", JsonObject(EmptyObject)>>) :
            a \in {"", "0xab", "0xcd", "0xEe"}, t \in {"mcp", "gpt", "xml"}}
    \cup {Request("PUT", "0xab", "mcp", <<"", JsonObject(EmptyObject)>>)}

AddressRequests ==
    {Request(m, a, t, <<"", JsonObject(EmptyObject)>>) :
        m \in {"GET"}, a \in {"0xab", "0xcd", "0xEe"}, t \in {"mcp", "gpt", "xml"}}
    \cup {Request(m, "0xab", "mcp", <<"", JsonObject(EmptyObject)>>) :
            m \in {"OPTIONS", "POST"}}

ActionRoute ==
    /\ Idle
    /\ UNCHANGED editor
    /\ \E r \in PathRequests : \E contract \in findFirst(r.address) :
           LET out == actionRouteHandler(r, contract, Pending)
           IN  /\ req' = [endpoint |-> "contract-server/[address]/[action]", contract |-> contract] @@ r
               /\ res' = out.res
               /\ remoteCalls' = out.calls
               /\ UNCHANGED contracts

QueryRoute ==
    /\ Idle
    /\ UNCHANGED editor
    /\ \E r \in QueryRequests : \E contract \in findFirst(r.address) :
           LET out == queryRouteHandler(r, contract, Pending)
           IN  /\ req' = [endpoint |-> "contract-server", contract |-> contract] @@ r
               /\ res' = out.res
               /\ remoteCalls' = out.calls
               /\ UNCHANGED contracts

\* a listing that writes to the row it served
AddressRouteTouching ==
    /\ Idle
    /\ UNCHANGED editor
    /\ \E r \in AddressRequests : \E contract \in findFirst(r.address) :
           LET out == addressRouteHandler(r, contract)
           IN  /\ req' = [endpoint |-> "contract-server/[address]", contract |-> contract] @@ r
               /\ res' = out.res
               /\ remoteCalls' = out.calls
               /\ contracts' = IF contract = Null THEN contracts
                               ELSE [contracts EXCEPT ![contract.id].name = "Served"]

AddressRoute ==
    /\ Idle
    /\ UNCHANGED editor
    /\ \E r \in AddressRequests : \E contract \in findFirst(r.address) :
           LET out == addressRouteHandler(r, contract)
           IN  /\ req' = [endpoint |-> "contract-server/[address]", contract |-> contract] @@ r
               /\ res' = out.res
               /\ remoteCalls' = out.calls
               /\ UNCHANGED contracts

-----------------------------------------------------------------------------
(* Generated-server requests *)

\* GET /api/contracts/[id]/generate-server
ServerRequests ==
    {<<user, "GET", id>> : user \in Users \cup {NoUser}, id \in 0..(Len(contracts) + 1)}
    \cup {<<"alice", "POST", 1>>}

GenerateServer ==
    /\ Idle
    /\ UNCHANGED editor
    /\ \E g \in ServerRequests :
           /\ req' = [endpoint |-> "generate-server", method |-> g[2], user |-> g[1],
                      id |-> g[3]]
           /\ res' = generateServerHandler(g[1], g[2], g[3])
           /\ remoteCalls' = <<>>
           /\ UNCHANGED contracts

\* elements that lack a member the generator reads
IllFormedActions ==
    LET whole == abiFunctionToMCPAction(
                    Fn("balanceOf", <<Field("owner", "address")>>,
                       <<Field("", "uint256")>>, "view"))
        bare == abiFunctionToMCPAction(Fn("pause", <<>>, <<>>, "nonpayable"))
        without(f, key) == [k \in DOMAIN f \ {key} |-> f[k]]
    IN  {without(whole, "name"), without(whole, "description"),
         without(whole, "parameters"),
         [whole EXCEPT !.parameters = without(whole.parameters, "type")],
         [whole EXCEPT !.parameters = without(whole.parameters, "properties")],
         [whole EXCEPT !.parameters = without(whole.parameters, "required")],
         [bare EXCEPT !.parameters = without(bare.parameters, "required")]}

\* the texts generateServerFiles is applied to: the compiled schemas of the
\* sample interface definitions, unparsable text, a JSON object, and lists
\* with an ill-formed element
SchemaTexts ==
    {abiToMCPSchema(ArrayText(abi)) : abi \in {Erc20Abi, VaultAbi, PausableAbi, <<>>}}
    \cup {MalformedText, ObjectText([actions |-> <<>>])}
    \cup {ArrayText(<<a>>) : a \in IllFormedActions}
    \cup {ArrayText(JSONparse(abiToMCPSchema(ArrayText(PausableAbi))) \o <<a>>) :
            a \in IllFormedActions}

\* a caller of the library function, with its try/catch around the call
GenerateServerFiles ==
    /\ Idle
    /\ UNCHANGED editor
    /\ \E mcpSchema \in SchemaTexts : \E contractName \in {"Sample", ""} :
           LET files == generateServerFiles(mcpSchema, "0xAb", contractName)
           IN  /\ req' = [endpoint |-> "generateServerFiles", mcpSchema |-> mcpSchema,
                          contractAddress |-> "0xAb", contractName |-> contractName]
               /\ res' = IF IsThrown(files)
                           THEN [status |-> "thrown", json |-> [message |-> files.message]]
                           ELSE [status |-> "returned", json |-> files]
               /\ remoteCalls' = <<>>
               /\ UNCHANGED contracts

\* `params.<name>` in the emitted source needs a name to follow the dot
compiles(server) ==
    \A i \in DOMAIN server.posts : \A j \in DOMAIN server.posts[i].requiredParams :
        server.posts[i].requiredParams[j] # ""

\* express.json() hands the route object bodies only
ScaffoldBodies == {ab \in ActionBodies : ab[2].kind = "object"} \cup
                  {<<"mint", JsonObject(EmptyObject)>>}

\* the server generated from a stored contract, deployed with that contract's
\* interface definition as CONTRACT_ABI, answers POST /contract/<action>
ScaffoldRoute ==
    /\ Idle
    /\ UNCHANGED editor
    /\ \E i \in DOMAIN contracts : \E ab \in ScaffoldBodies :
           /\ contracts[i].mcpSchema # Null
           /\ LET server == generateTypeScriptServer(contracts[i].mcpSchema,
                                contracts[i].address, contracts[i].name)
                  r == [method |-> "POST", action |-> ab[1], body |-> ab[2]]
              IN  /\ ~IsThrown(server)
                  /\ compiles(server)
                  /\ LET out == scaffoldServer(server, r, contracts[i].abiJson, Pending)
                     IN  /\ req' = [endpoint |-> "/contract/[action]",
                                    contract |-> contracts[i], server |-> server] @@ r
                         /\ res' = out.res
                         /\ remoteCalls' = out.calls
                         /\ UNCHANGED contracts

\* the handler is suspended in `await contractInstance[action](...)`
Awaiting == ~Idle /\ res = NoResponse /\ remoteCalls # <<>>

\* The promise of the remote call settles, with a value or a rejection, and the
\* handler runs to its response.  This is the remote endpoint's step: nothing
\* in the handler makes it happen.
RemoteSettles ==
    /\ Awaiting
    /\ UNCHANGED editor
    /\ \E outcome \in OutcomesFor(req.contract, req.action) :
           LET out == IF req.endpoint = "contract-server"
                        THEN queryRouteHandler(req, req.contract, outcome)
                        ELSE IF req.endpoint = "/contract/[action]"
                          THEN scaffoldServer(req.server, req, req.contract.abiJson, outcome)
                        ELSE actionRouteHandler(req, req.contract, outcome)
           IN  /\ res' = out.res
               /\ remoteCalls' = out.calls
               /\ UNCHANGED <<contracts, req>>

-----------------------------------------------------------------------------
(* The Type Mapper on single interface fields *)

\* a structure tag comes with components
StructTypes == {"tuple", "tuple[]", "tuple[][]"}

\* fields without components, unnamed ones included
ScalarFields ==
    {Field(n, t) : n \in {"", "to", "ids", "hooks"}, t \in SolTypes \ StructTypes}

ComponentPool ==
    {Field("maker", "address"), Field("amounts", "uint256[][]"),
     Field("hooks", "function[][]")}

\* structures, arrays of structures and structures of structures
StructFields ==
    LET lists == UNION {[1..n -> ComponentPool] : n \in 1..MaxComponents}
        flat == {Struct("order", t, c) : t \in StructTypes, c \in lists}
        inner == {Struct("leg", t, <<Field("maker", "address")>>) :
                    t \in {"tuple", "tuple[]"}}
    IN  flat \cup {Struct("batch", t, <<s>>) : t \in {"tuple", "tuple[]"}, s \in inner}

FieldPool == ScalarFields \cup StructFields

\* abiFunctionToMCPAction's call of the mapper on one input
MapField ==
    /\ Idle
    /\ UNCHANGED editor
    /\ \E param \in FieldPool :
           /\ req' = [endpoint |-> "processABIParameter", param |-> param]
           /\ res' = [status |-> "returned", json |-> processABIParameter(param)]
           /\ remoteCalls' = <<>>
           /\ UNCHANGED contracts

\* components/ContractFunctionEditor.tsx: the editor's own copy of the
\* parameter description generator
generateDefaultParamDescription(name, type) ==
    IF includes(type, "address") THEN <<"Ethereum address for ", name>>
    ELSE IF includes(type, "uint256") THEN <<"Numeric value for ", name>>
    ELSE IF includes(type, "bool") THEN <<"Boolean flag for ", name>>
    ELSE IF includes(type, "string") THEN <<"String value for ", name>>
    ELSE IF includes(type, "bytes") THEN <<"Bytes data for ", name>>
    ELSE <<"Parameter ", name, " of type ", type>>

\* the default description of one field, from the compiler and from the editor
DescribeField ==
    /\ Idle
    /\ UNCHANGED editor
    /\ \E param \in ScalarFields :
           /\ req' = [endpoint |-> "generateParamDescription", param |-> param]
           /\ res' = [status |-> "returned",
                      json |-> [compiler |-> generateParamDescription(
                                    IF param.name # "" THEN param.name ELSE "param",
                                    param.type),
                                editor |-> generateDefaultParamDescription(param.name,
                                                                           param.type)]]
           /\ remoteCalls' = <<>>
           /\ UNCHANGED contracts

-----------------------------------------------------------------------------
(* components/ContractFunctionEditor.tsx: the description editor.  Its state *)
(* is the list of functions it shows and the descriptions being edited.      *)

\* the editor's own copy of the function description generator
generateDefaultFunctionDescription(func) ==
    LET paramList == Join([i \in DOMAIN func.inputs |->
                             <<func.inputs[i].name, " (", func.inputs[i].type, ")">>], ", ")
        returnList == Join([i \in DOMAIN func.outputs |->
                             <<IF func.outputs[i].name # "" THEN func.outputs[i].name ELSE "return",
                               " (", func.outputs[i].type, ")">>], ", ")
    IN  <<"Calls the ", func.name, " function">>
        \o (IF Len(func.inputs) > 0 THEN <<" with parameters: ">> \o paramList ELSE <<>>)
        \o (IF Len(func.outputs) > 0 THEN <<". Returns: ">> \o returnList ELSE <<>>)
        \o (IF func.stateMutability = "view" \/ func.stateMutability = "pure"
              THEN <<". This function does not modify blockchain state.">>
            ELSE IF func.stateMutability = "payable"
              THEN <<". This function can receive Ether.">>
            ELSE <<". This function may modify blockchain state.">>)

\* func.inputs.reduce(...) of handleReset: a later input of the same name
\* overwrites an earlier one
defaultInputs(func) ==
    [k \in {func.inputs[i].name : i \in DOMAIN func.inputs} |->
        LET input == func.inputs[LastIndexOf(func.inputs, k)]
        IN  [description |-> generateDefaultParamDescription(input.name, input.type)]]

\* func.inputs.reduce(...) of the initialization:
\* customDescriptions[func.name]?.inputs?.[input.name]?.description || default
initialInputs(func, customDescriptions) ==
    [k \in {func.inputs[i].name : i \in DOMAIN func.inputs} |->
        LET input == func.inputs[LastIndexOf(func.inputs, k)]
            custom == IF /\ func.name \in DOMAIN customDescriptions
                         /\ "inputs" \in DOMAIN customDescriptions[func.name]
                         /\ k \in DOMAIN customDescriptions[func.name].inputs
                        THEN customDescriptions[func.name].inputs[k].description
                        ELSE <<>>
        IN  [description |-> IF custom # <<>> THEN custom
                             ELSE generateDefaultParamDescription(input.name, input.type)]]

\* the last function of the list that has the name: forEach assigns in order
lastNamed(abiFunctions, name) ==
    abiFunctions[CHOOSE i \in DOMAIN abiFunctions :
                    /\ abiFunctions[i].name = name
                    /\ \A j \in DOMAIN abiFunctions : abiFunctions[j].name = name => j <= i]

\* abiFunctions.forEach(func => initialDescriptions[func.name] =
\*     customDescriptions[func.name] || {description, inputs})
initialDescriptions(abiFunctions, customDescriptions) ==
    [name \in {abiFunctions[i].name : i \in DOMAIN abiFunctions} |->
        LET func == lastNamed(abiFunctions, name)
        IN  IF name \in DOMAIN customDescriptions
              THEN customDescriptions[name]
              ELSE [description |-> generateDefaultFunctionDescription(func),
                    inputs |-> initialInputs(func, customDescriptions)]]

\* the first render and the effect on [abiJson, customDescriptions]
mountEditor(abiJson, customDescriptions) ==
    IF ParseThrows(abiJson) \/ abiJson.kind # "array"
      \* JSON.parse or parsedAbi.filter throws: the catch shows a toast
      THEN [mounted |-> TRUE, functions |-> <<>>,
            editedDescriptions |-> customDescriptions,
            toast |-> "Failed to parse ABI JSON"]
      ELSE LET abiFunctions == SelectSeq(JSONparse(abiJson),
                                         LAMBDA item : item.type = "function")
           IN  [mounted |-> TRUE, functions |-> abiFunctions,
                editedDescriptions |-> initialDescriptions(abiFunctions, customDescriptions),
                toast |-> "none"]

\* a reset that leaves the input descriptions as they are
handleResetDescriptionOnly(prev, shown, functionName) ==
    LET hits == SelectSeq(shown, LAMBDA f : f.name = functionName)
    IN  IF hits = <<>> THEN prev
        ELSE [name \in DOMAIN prev \cup {functionName} |->
                IF name = functionName
                  THEN [description |-> generateDefaultFunctionDescription(hits[1]),
                        inputs |-> IF functionName \in DOMAIN prev
                                      /\ "inputs" \in DOMAIN prev[functionName]
                                     THEN prev[functionName].inputs
                                     ELSE defaultInputs(hits[1])]
                  ELSE prev[name]]

\* handleReset: editedDescriptions after the reset
handleReset(prev, shown, functionName) ==
    LET hits == SelectSeq(shown, LAMBDA f : f.name = functionName)   \* functions.find
    IN  IF hits = <<>> THEN prev
        ELSE [name \in DOMAIN prev \cup {functionName} |->
                IF name = functionName
                  THEN [description |-> generateDefaultFunctionDescription(hits[1]),
                        inputs |-> defaultInputs(hits[1])]
                  ELSE prev[name]]

\* handleFunctionDescriptionChange: {...prev[functionName], description}
handleFunctionDescriptionChange(prev, functionName, description) ==
    LET old == IF functionName \in DOMAIN prev THEN prev[functionName] ELSE EmptyObject
    IN  [name \in DOMAIN prev \cup {functionName} |->
            IF name = functionName
              THEN [k \in DOMAIN old \cup {"description"} |->
                       IF k = "description" THEN description ELSE old[k]]
              ELSE prev[name]]

\* handleParameterDescriptionChange:
\* {...prev[functionName], inputs: {...prev[functionName].inputs, [paramName]: {description}}}
handleParameterDescriptionChange(prev, functionName, paramName, description) ==
    LET old == prev[functionName]
        oldInputs == IF "inputs" \in DOMAIN old THEN old.inputs ELSE EmptyObject
        inputs == [k \in DOMAIN oldInputs \cup {paramName} |->
                      IF k = paramName THEN [description |-> description] ELSE oldInputs[k]]
    IN  [name \in DOMAIN prev |->
            IF name = functionName
              THEN [k \in DOMAIN old \cup {"inputs"} |->
                       IF k = "inputs" THEN inputs ELSE old[k]]
              ELSE prev[name]]

-----------------------------------------------------------------------------
(* The editor on a stored contract *)

\* override sets a contract can have stored: one that mentions a single input
\* of transfer, one with top-level descriptions only
TopLevelOverrides ==
    [balanceOf |-> [description |-> <<"Balance of an owner">>, inputs |-> EmptyObject],
     transfer |-> [description |-> <<"Send tokens">>, inputs |-> EmptyObject]]

StoredOverrides == {Null, SampleOverrides, TopLevelOverrides}

EditorAbis == {ArrayText(Erc20Abi), ArrayText(VaultAbi), ArrayText(PausableAbi),
               ObjectText([note |-> "not an ABI"])}

\* what the user types
EditedText == <<"Edited">>
EditedFunctions == {"transfer"}
EditedParams == {"amount"}

\* the page shows the editor for a contract, with the stored overrides as
\* customDescriptions (the default {} when there are none)
Mount ==
    /\ editor = NoEditor
    /\ \E i \in DOMAIN contracts :
           editor' = [contractId |-> i] @@
                     mountEditor(contracts[i].abiJson,
                                 IF contracts[i].customFunctionDescriptions = Null
                                   THEN EmptyObject
                                   ELSE contracts[i].customFunctionDescriptions)
    /\ UNCHANGED <<contracts, req, res, remoteCalls>>

Unmount ==
    /\ editor # NoEditor
    /\ editor' = NoEditor
    /\ UNCHANGED <<contracts, req, res, remoteCalls>>

\* the names of the functions the editor renders
Rendered == IF editor = NoEditor THEN {}
            ELSE {editor.functions[i].name : i \in DOMAIN editor.functions}

EditFunction ==
    /\ editor # NoEditor
    /\ \E functionName \in Rendered \cap EditedFunctions :
           editor' = [editor EXCEPT !.editedDescriptions =
                        handleFunctionDescriptionChange(@, functionName, EditedText)]
    /\ UNCHANGED <<contracts, req, res, remoteCalls>>

EditParameter ==
    /\ editor # NoEditor
    /\ \E i \in DOMAIN editor.functions : \E j \in DOMAIN editor.functions[i].inputs :
           /\ editor.functions[i].name \in EditedFunctions
           /\ editor.functions[i].inputs[j].name \in EditedParams
           /\ editor' = [editor EXCEPT !.editedDescriptions =
                           handleParameterDescriptionChange(@, editor.functions[i].name,
                               editor.functions[i].inputs[j].name, EditedText)]
    /\ UNCHANGED <<contracts, req, res, remoteCalls>>

\* "Reset to Default" of a rendered function; "mint" is a name of no function
Reset ==
    /\ editor # NoEditor
    /\ \E functionName \in Rendered \cup {"mint"} :
           editor' = [editor EXCEPT !.editedDescriptions =
                        handleReset(@, editor.functions, functionName)]
    /\ UNCHANGED <<contracts, req, res, remoteCalls>>

\* handleSave: PUT /api/contracts/<id>/descriptions with the edited set
Save ==
    /\ Idle
    /\ editor # NoEditor
    /\ \E user \in Users :
           LET body == [customFunctionDescriptions |-> editor.editedDescriptions]
               out == descriptionsHandler(user, "PUT", editor.contractId, body)
           IN  /\ req' = [endpoint |-> "descriptions", method |-> "PUT", user |-> user,
                          id |-> editor.contractId, body |-> body]
               /\ res' = out.res
               /\ contracts' = out.table
               /\ remoteCalls' = <<>>
               /\ editor' = [editor EXCEPT !.toast =
                               IF out.res.status = 200
                                 THEN "Function descriptions updated successfully"
                                 ELSE "Failed to save function descriptions"]

-----------------------------------------------------------------------------
(* Specifications *)

Init ==
    /\ contracts = <<>>
    /\ req = NoRequest
    /\ res = NoResponse
    /\ remoteCalls = <<>>
    /\ editor = NoEditor

\* the response is on the wire and the handler invocation is over
Complete ==
    /\ res # NoResponse
    /\ UNCHANGED editor
    /\ req' = NoRequest
    /\ res' = NoResponse
    /\ remoteCalls' = <<>>
    /\ UNCHANGED contracts

\* Contract import, schema generation and the invocation dispatcher.  The
\* description endpoint writes a column none of these reads; it runs in
\* SpecCompile below.
Next ==
    \/ Complete
    \/ CreateContract
    \/ GenerateSchemas
    \/ ActionRoute
    \/ QueryRoute
    \/ AddressRoute
    \/ RemoteSettles

Spec == Init /\ [][Next]_vars

\* The server keeps running its handlers: a computed response is sent and a
\* suspended handler resumes once its promise has settled.  Whether and when
\* the remote endpoint answers (RemoteSettles) is not the server's to decide.
SpecServing == Spec /\ WF_vars(Complete)

\* The compiler on every interface definition of AllAbis: one imported
\* contract, and the schema and description endpoints working on it.
InitCompile ==
    /\ \E abi \in AllAbis :
          contracts = <<NewContract(1, "Sample", "0xAb", ArrayText(abi), "mainnet",
                                    "manual", "p1")>>
    /\ req = NoRequest
    /\ res = NoResponse
    /\ remoteCalls = <<>>
    /\ editor = NoEditor

NextCompile ==
    \/ Complete
    \/ GenerateSchemas
    \/ Descriptions

SpecCompile == InitCompile /\ [][NextCompile]_vars

\* The generated server next to the platform: one imported contract, its
\* schemas, the server generated from them and requests to that server.
NextScaffold ==
    \/ Complete
    \/ GenerateSchemas
    \/ GenerateServer
    \/ GenerateServerFiles
    \/ ScaffoldRoute
    \/ RemoteSettles

SpecScaffold == InitCompile /\ [][NextScaffold]_vars

\* The Type Mapper and the description generators, field by field.
NextMapper ==
    \/ Complete
    \/ MapField
    \/ DescribeField

SpecMapper == Init /\ [][NextMapper]_vars

\* The description editor on one stored contract, with or without overrides.
InitEditor ==
    /\ \E abiJson \in EditorAbis : \E stored \in StoredOverrides :
          contracts = <<[NewContract(1, "Sample", "0xAb", abiJson, "mainnet", "manual", "p1")
                            EXCEPT !.customFunctionDescriptions = stored]>>
    /\ req = NoRequest
    /\ res = NoResponse
    /\ remoteCalls = <<>>
    /\ editor = NoEditor

NextEditor ==
    \/ Complete
    \/ Mount
    \/ Unmount
    \/ EditFunction
    \/ EditParameter
    \/ Reset
    \/ Save

SpecEditor == InitEditor /\ [][NextEditor]_vars

\* The stored record under the requests that write it: import, rename and
\* delete, description update, schema generation.
RecordBodies == {Erc20Body, VaultBody, BrokenBody}

\* the imports of three interface definitions, and the refused ones
CreateRecord == CreateContract /\ req'.body \in RecordBodies

NextRecord ==
    \/ Complete
    \/ CreateRecord
    \/ ContractRoute
    \/ Descriptions
    \/ GenerateSchemas

SpecRecord == Init /\ [][NextRecord]_vars

-----------------------------------------------------------------------------
(* Properties.  The vocabulary below reads the persisted rows and the       *)
(* request in flight; it does not use the compiler or the handlers.         *)

ReadOnlyMutabilities == {"pure", "view"}
MutatingMutabilities == {"nonpayable", "payable"}

\* the rows for which generate-schemas has stored a schema
Generated == {i \in DOMAIN contracts : contracts[i].mcpSchema # Null}

\* the interface definition of a row, and its stored Dialect-A actions
AbiOf(row) == row.abiJson.json
DialectA(row) == row.mcpSchema.json
DialectB(row) == row.gptActionSchema.json

\* the stored actions of a row as the request's dialect selector sees them
ActionsOf(row, schemaType) ==
    IF schemaType = "mcp" THEN DialectA(row)
    ELSE [k \in DOMAIN DialectB(row) |-> DialectB(row)[k].function]

InputNames(entry) == [i \in DOMAIN entry.inputs |-> entry.inputs[i].name]

\* the function entries an action can have been compiled from
SourceEntries(row, action) ==
    {e \in Range(AbiOf(row)) :
        /\ e.type = "function"
        /\ e.name = action.name
        /\ InputNames(e) = action.parameters.required}

\* an action of the schema for the entry: same name, same number of arguments
HasActionFor(schema, entry) ==
    \E k \in DOMAIN schema :
        /\ schema[k].name = entry.name
        /\ Len(schema[k].parameters.required) = Len(entry.inputs)

\* C1: in every persisted Dialect-A schema there is no action for a function
\* entry that is pure or view and has no inputs, there is an action for every
\* function entry that is nonpayable or payable and has no inputs, and every
\* action comes from a function entry (non-function entries are not compiled).
C1_ZeroArgumentFilter ==
    \A i \in Generated :
        LET abi == AbiOf(contracts[i])
            schema == DialectA(contracts[i])
        IN  /\ \A j \in DOMAIN abi :
                  (abi[j].type = "function" /\ Len(abi[j].inputs) = 0) =>
                     /\ abi[j].stateMutability \in ReadOnlyMutabilities
                           => ~HasActionFor(schema, abi[j])
                     /\ abi[j].stateMutability \in MutatingMutabilities
                           => HasActionFor(schema, abi[j])
            /\ \A k \in DOMAIN schema : SourceEntries(contracts[i], schema[k]) # {}
            /\ Len(schema) <= Cardinality({j \in DOMAIN abi : abi[j].type = "function"})

\* the parts of C1 the compiler does keep: zero-input view entries are left
\* out, zero-input mutating entries are compiled, other entry types are not
C1_ViewOnlyFilter ==
    \A i \in Generated :
        LET abi == AbiOf(contracts[i])
            schema == DialectA(contracts[i])
        IN  /\ \A j \in DOMAIN abi :
                  (abi[j].type = "function" /\ Len(abi[j].inputs) = 0) =>
                     /\ abi[j].stateMutability = "view" => ~HasActionFor(schema, abi[j])
                     /\ abi[j].stateMutability \in MutatingMutabilities
                           => HasActionFor(schema, abi[j])
            /\ \A k \in DOMAIN schema : SourceEntries(contracts[i], schema[k]) # {}
            /\ Len(schema) <= Cardinality({j \in DOMAIN abi : abi[j].type = "function"})

-----------------------------------------------------------------------------
(* The dispatcher's requests *)

PathRoute == "contract-server/[address]/[action]"
QueryEndpoint == "contract-server"
AddressEndpoint == "contract-server/[address]"

\* a POST of an action to a row that has the schema of the requested dialect
DispatchedPost ==
    /\ req.endpoint \in {PathRoute, QueryEndpoint}
    /\ req.method = "POST"
    /\ req.address # ""
    /\ req.action # ""
    /\ req.schemaType \in {"mcp", "gpt"}
    /\ req.contract # Null
    /\ (IF req.schemaType = "mcp" THEN req.contract.mcpSchema
        ELSE req.contract.gptActionSchema) # Null

\* the positions of the stored actions the request names
NamedActions ==
    {k \in DOMAIN ActionsOf(req.contract, req.schemaType) :
        ActionsOf(req.contract, req.schemaType)[k].name = req.action}

\* the action the request names: the first of that name
RequestedAction ==
    ActionsOf(req.contract, req.schemaType)
        [CHOOSE k \in NamedActions : \A j \in NamedActions : k <= j]

\* the request body is a mapping that has the argument
Supplied(name) == req.body.kind = "object" /\ name \in DOMAIN req.body.json

SuppliesAll(action) ==
    \A i \in DOMAIN action.parameters.required : Supplied(action.parameters.required[i])

IsMutating(action) ==
    \E e \in SourceEntries(req.contract, action) :
        e.stateMutability \in MutatingMutabilities

IsReadOnly(action) ==
    \E e \in SourceEntries(req.contract, action) :
        e.stateMutability \in ReadOnlyMutabilities

SimulationAcknowledged ==
    /\ res.status = 200
    /\ "simulation" \in DOMAIN res.json
    /\ res.json.simulation = TRUE

\* C2: a POST that names a state-mutating action of the persisted schema and
\* supplies all of its required arguments is answered 200 with a simulation
\* acknowledgement carrying the action name and the supplied arguments; no
\* remote contract call is made and the answer is not a 500.
C2_MutationAcknowledged ==
    (/\ DispatchedPost
     /\ NamedActions # {}
     /\ IsMutating(RequestedAction)
     /\ SuppliesAll(RequestedAction))
    => /\ SimulationAcknowledged
       /\ res.json.function = req.action
       /\ res.json.parameters = req.body
       /\ remoteCalls = <<>>
       /\ res.status # 500

\* the parts of C2 that hold of every such request: no remote call, no 500,
\* and the acknowledgement whenever the name has a single signature
C2_NeverExecuted ==
    (/\ DispatchedPost
     /\ NamedActions # {}
     /\ IsMutating(RequestedAction)
     /\ SuppliesAll(RequestedAction))
    => /\ remoteCalls = <<>>
       /\ res.status # 500
       /\ Cardinality(NamedActions) = 1
            => /\ SimulationAcknowledged
               /\ res.json.function = req.action
               /\ res.json.parameters = req.body

\* what the dispatcher selected for the request in flight
ReadExecutionSelected ==
    \/ remoteCalls # <<>>
    \/ res.status = 200 /\ "success" \in DOMAIN res.json

MarkerPresent(action) ==
    \E i \in DOMAIN action.description :
        action.description[i] = ". This function does not modify blockchain state."

\* C3: the description generator and the dispatcher agree on the marker: every
\* persisted action carries the marker phrase in its description exactly when
\* the function entry it was compiled from is pure or view, and for a
\* dispatched action the dispatcher selects ReadExecution only for an action of
\* a pure or view entry and MutationAcknowledgement only for an action of a
\* nonpayable or payable entry.
C3_MarkerAgreement ==
    /\ \A i \in Generated : \A k \in DOMAIN DialectA(contracts[i]) :
          LET action == DialectA(contracts[i])[k]
          IN  \A e \in SourceEntries(contracts[i], action) :
                 /\ MarkerPresent(action) <=> e.stateMutability \in ReadOnlyMutabilities
                 /\ ~MarkerPresent(action) <=> e.stateMutability \in MutatingMutabilities
    /\ (DispatchedPost /\ NamedActions # {}) =>
          /\ ReadExecutionSelected =>
                /\ IsReadOnly(RequestedAction)
                /\ ~IsMutating(RequestedAction)
          /\ SimulationAcknowledged =>
                /\ IsMutating(RequestedAction)
                /\ ~IsReadOnly(RequestedAction)

\* a pure function is dispatched as a read: the remote call is made
C3_Witness ==
    /\ DispatchedPost
    /\ NamedActions # {}
    /\ req.action = "fill"
    /\ req.schemaType = "gpt"
    /\ ReadExecutionSelected
    /\ res.status = 200
    /\ MarkerPresent(RequestedAction)

\* the required names the request body does not supply, in required order
RECURSIVE Omitted(_)
Omitted(required) ==
    IF required = <<>> THEN <<>>
    ELSE (IF Supplied(Head(required)) THEN <<>> ELSE <<Head(required)>>)
         \o Omitted(Tail(required))

ReachesLookup ==
    /\ req.endpoint \in {PathRoute, QueryEndpoint, AddressEndpoint}
    /\ req.address # ""
    /\ req.schemaType \in {"mcp", "gpt"}
    /\ req.endpoint = PathRoute => req.method = "POST" /\ req.action # ""
    /\ req.endpoint = QueryEndpoint => req.method \in {"GET", "POST"}
    /\ req.endpoint = AddressEndpoint => req.method = "GET"

\* the persisted rows whose address is the requested one but for letter case
RowsAtAddress ==
    {i \in DOMAIN contracts : toLowerCase(contracts[i].address) = toLowerCase(req.address)}

DialectName == IF req.schemaType = "mcp" THEN "MCP" ELSE "GPT"

ContractNotFound ==
    res.status = 404 /\ res.json = [error |-> "Contract not found"]

SchemaMissing ==
    res.status = 404
    /\ res.json = [error |-> DialectName \o " schema not found for this contract"]

\* C5: for a dispatcher request with a valid dialect selector, the answer is
\* 404 'Contract not found' exactly when no persisted row has the requested
\* address ignoring letter case; otherwise a row of that address is resolved
\* and, when the schema of the requested dialect was never generated for it,
\* the answer is 404 with the schema-missing message that names the dialect.
C5_LookupFailures ==
    ReachesLookup =>
        /\ RowsAtAddress = {} => ContractNotFound
        /\ RowsAtAddress # {} =>
              /\ ~ContractNotFound
              /\ req.contract \in {contracts[i] : i \in RowsAtAddress}
              /\ (IF req.schemaType = "mcp" THEN req.contract.mcpSchema = Null
                  ELSE req.contract.gptActionSchema = Null) => SchemaMissing

\* a stored row whose address differs in letter case from the requested one
\* is resolved, and its GPT schema was never generated
C5_Witness ==
    /\ ReachesLookup
    /\ req.endpoint = PathRoute
    /\ req.schemaType = "gpt"
    /\ req.address = "0xab"
    /\ RowsAtAddress # {}
    /\ \A i \in RowsAtAddress : contracts[i].address # req.address
    /\ SchemaMissing

\* an unknown address
C5_WitnessNotFound ==
    /\ ReachesLookup
    /\ req.address = "0xEe"
    /\ contracts # <<>>
    /\ ContractNotFound

\* the rule of ResultNormalization: an integer becomes the structured form, a
\* sequence is normalized element by element at every depth, anything else
\* passes through
RECURSIVE Normalized(_)
Normalized(value) ==
    IF value.t = "BigNumber"
      THEN Obj([type |-> "BigNumber", hex |-> toHexString(value),
                decimal |-> toString(value), formatted |-> toString(value)])
    ELSE IF value.t = "array"
      THEN Arr([i \in DOMAIN value.v |-> Normalized(value.v[i])])
    ELSE value

RECURSIVE HasRawInteger(_)
HasRawInteger(value) ==
    \/ value.t = "BigNumber"
    \/ value.t = "array" /\ \E i \in DOMAIN value.v : HasRawInteger(value.v[i])

SuccessfulRead ==
    /\ req.endpoint \in {PathRoute, QueryEndpoint}
    /\ res.status = 200
    /\ "success" \in DOMAIN res.json
    /\ Len(remoteCalls) = 1

\* C6: the result of a successful read is the normalization of what the remote
\* call returned: an integer is replaced by the object with type, hex, decimal
\* and formatted, another scalar is unchanged, a sequence is normalized element
\* by element with the same rule at every depth, so no raw integer remains.
C6_ResultNormalized ==
    SuccessfulRead =>
        /\ res.json.result = Normalized(remoteCalls[1].result)
        /\ ~HasRawInteger(res.json.result)

\* what normalization does keep: scalars and sequences of scalars
C6_NormalizedOneLevel ==
    (/\ SuccessfulRead
     /\ remoteCalls[1].result.t = "array" =>
           \A i \in DOMAIN remoteCalls[1].result.v : remoteCalls[1].result.v[i].t # "array")
    => /\ res.json.result = Normalized(remoteCalls[1].result)
       /\ ~HasRawInteger(res.json.result)

\* generate-schemas has just persisted the schemas of row req.id
SchemasJustPersisted ==
    /\ req.endpoint = "generate-schemas"
    /\ res.status = 200
    /\ req.id \in Generated

\* the description the action's parameter has for the source input
ParameterDescription(action, name) == action.parameters.properties[name].description

\* the generated default of an input's description
DefaultDescription(input) ==
    generateParamDescription(IF input.name # "" THEN input.name ELSE "param", input.type)

\* C7: in the schema generate-schemas persists after an override was stored,
\* the action of a function that has an override entry has the override's
\* description, each of its parameters the override mentions has the override's
\* description, and each other parameter has its generated default.
C7_OverrideMerged ==
    SchemasJustPersisted =>
        LET row == contracts[req.id]
            overrides == row.customFunctionDescriptions
        IN  overrides # Null =>
              \A k \in DOMAIN DialectA(row) :
                 LET action == DialectA(row)[k]
                 IN  action.name \in DOMAIN overrides =>
                        /\ action.description = overrides[action.name].description
                        /\ \A e \in SourceEntries(row, action) : \A i \in DOMAIN e.inputs :
                              ParameterDescription(action, e.inputs[i].name) =
                                 IF e.inputs[i].name \in DOMAIN overrides[action.name].inputs
                                   THEN overrides[action.name].inputs[e.inputs[i].name].description
                                   ELSE DefaultDescription(e.inputs[i])

\* what the persisted schema does have: the generated descriptions only
C7_OverrideIgnored ==
    SchemasJustPersisted =>
        LET row == contracts[req.id]
        IN  \A k \in DOMAIN DialectA(row) :
               LET action == DialectA(row)[k]
               IN  \A e \in SourceEntries(row, action) :
                      /\ action.description = generateFunctionDescription(e)
                      /\ \A i \in DOMAIN e.inputs :
                            ParameterDescription(action, e.inputs[i].name)
                               = DefaultDescription(e.inputs[i])

\* the function entries of a row with the action's name and number of inputs
EntriesOfArity(row, action) ==
    {e \in Range(AbiOf(row)) :
        /\ e.type = "function"
        /\ e.name = action.name
        /\ Len(e.inputs) = Len(action.parameters.required)}

\* C8: every persisted action has a source function entry such that required
\* has the length of the entry's inputs and lists their names in declaration
\* order, every name of required is a key of parameters.properties, the
\* descriptor under it is the one mapped from that input, and properties has
\* one entry per input.
C8_RequiredAndProperties ==
    \A r \in Generated : \A k \in DOMAIN DialectA(contracts[r]) :
        LET action == DialectA(contracts[r])[k]
            required == action.parameters.required
            properties == action.parameters.properties
        IN  \E e \in EntriesOfArity(contracts[r], action) :
               /\ Len(required) = Len(e.inputs)
               /\ \A i \in DOMAIN e.inputs :
                     /\ required[i] = e.inputs[i].name
                     /\ required[i] \in DOMAIN properties
                     /\ properties[required[i]] = processABIParameter(e.inputs[i])
               /\ Cardinality(DOMAIN properties) = Len(e.inputs)

\* the same for the entries whose inputs all have names of their own
C8_NamedInputs ==
    \A r \in Generated : \A k \in DOMAIN DialectA(contracts[r]) :
        LET action == DialectA(contracts[r])[k]
            required == action.parameters.required
            properties == action.parameters.properties
        IN  \E e \in EntriesOfArity(contracts[r], action) :
               /\ Len(required) = Len(e.inputs)
               /\ \A i \in DOMAIN e.inputs : required[i] = e.inputs[i].name
               /\ (\A i, j \in DOMAIN e.inputs :
                      e.inputs[i].name # "" /\ (e.inputs[i].name = e.inputs[j].name => i = j))
                  => /\ \A i \in DOMAIN e.inputs :
                           /\ required[i] \in DOMAIN properties
                           /\ properties[required[i]] = processABIParameter(e.inputs[i])
                     /\ Cardinality(DOMAIN properties) = Len(e.inputs)

\* C9: for every row with persisted schemas, the Dialect-B schema has as many
\* entries as the Dialect-A schema, in the same order, and its i-th entry is
\* the envelope {type: 'function', function: {name, description, parameters}}
\* of the i-th Dialect-A action and nothing else.
C9_EnvelopeOfDialectA ==
    \A r \in Generated :
        LET a == DialectA(contracts[r])
            b == DialectB(contracts[r])
        IN  /\ contracts[r].gptActionSchema # Null
            /\ contracts[r].gptActionSchema.kind = "array"
            /\ Len(b) = Len(a)
            /\ \A i \in DOMAIN a :
                  /\ DOMAIN b[i] = {"type", "function"}
                  /\ b[i].type = "function"
                  /\ DOMAIN b[i].function = {"name", "description", "parameters"}
                  /\ b[i].function.name = a[i].name
                  /\ b[i].function.description = a[i].description
                  /\ b[i].function.parameters = a[i].parameters

\* two actions of different names and parameters are enveloped in order
C9_Witness ==
    \E r \in Generated :
        /\ Len(DialectA(contracts[r])) = 2
        /\ Len(DialectB(contracts[r])) = 2
        /\ DialectA(contracts[r])[1].name = "fill"
        /\ DialectA(contracts[r])[2].name = "deposit"
        /\ DialectB(contracts[r])[2].function.name = "deposit"

-----------------------------------------------------------------------------
(* Schema generation and the failures of the dispatcher *)

\* the schema columns of a row
SchemaFields(row) == <<row.mcpSchema, row.gptActionSchema>>

\* two texts that are one compilation: the second the envelope of the first
OneCompilation(mcpText, gptText) ==
    /\ mcpText # Null /\ gptText # Null
    /\ mcpText.kind = "array" /\ gptText.kind = "array"
    /\ Len(gptText.json) = Len(mcpText.json)
    /\ \A k \in DOMAIN mcpText.json :
          gptText.json[k] =
             [type |-> "function",
              function |-> [name |-> mcpText.json[k].name,
                            description |-> mcpText.json[k].description,
                            parameters |-> mcpText.json[k].parameters]]

\* C11: generate-schemas is all-or-nothing: a request answered with an error
\* leaves every row as it was, both schema fields included; a request answered
\* with success writes both schema fields of its row, and no other field of any
\* row, with the two outputs of one compilation, which are the ones it returns.
C11_AllOrNothing ==
    [][req'.endpoint = "generate-schemas" =>
         IF res'.status = 200
           THEN /\ DOMAIN contracts' = DOMAIN contracts
                /\ req'.id \in DOMAIN contracts
                /\ \A i \in DOMAIN contracts :
                      i # req'.id => contracts'[i] = contracts[i]
                /\ contracts'[req'.id] =
                      [contracts[req'.id] EXCEPT
                          !.mcpSchema = res'.json.mcpSchema,
                          !.gptActionSchema = res'.json.gptActionSchema]
                /\ OneCompilation(contracts'[req'.id].mcpSchema,
                                  contracts'[req'.id].gptActionSchema)
           ELSE contracts' = contracts]_vars

\* in every state the two schema fields of a row are both absent or both present
C11_NeverHalfWritten ==
    \A i \in DOMAIN contracts :
        contracts[i].mcpSchema = Null <=> contracts[i].gptActionSchema = Null

\* compiling an interface definition that is not a list has failed: the
\* request is answered 500 and the row has no schema
C11_Witness ==
    /\ req.endpoint = "generate-schemas"
    /\ res.status = 500
    /\ res.json = [error |-> "Failed to generate schemas"]
    /\ contracts[req.id].abiJson.kind = "object"
    /\ SchemaFields(contracts[req.id]) = <<Null, Null>>

\* the remote call of the request in flight was made and it failed
RemoteCallFailed ==
    /\ remoteCalls # <<>>
    /\ DOMAIN remoteCalls[1].result = {"kind", "message"}

ExecutionFailed ==
    /\ res.status = 500
    /\ res.json = [error |-> "Failed to call contract function \"" \o req.action \o "\"",
                   details |-> remoteCalls[1].result.message]

\* C12: when the remote call of a read fails, the request is answered 500
\* with the ExecutionFailed body that names the action and carries the
\* underlying message, the body has no result, and in every request the remote
\* call is made at most once.
C12_ExecutionFailedOnce ==
    /\ Len(remoteCalls) <= 1
    /\ RemoteCallFailed =>
          /\ req.endpoint \in {PathRoute, QueryEndpoint}
          /\ ExecutionFailed
          /\ "result" \notin DOMAIN res.json
          /\ remoteCalls[1].function = req.action

\* the read of balanceOf reverted
C12_Witness ==
    /\ RemoteCallFailed
    /\ req.action = "balanceOf"
    /\ remoteCalls[1].result.message = "call revert exception"
    /\ ExecutionFailed

\* C13: the remote call of a read runs under a bounded timeout: a request that
\* is waiting for the remote endpoint is eventually answered, also when the
\* endpoint never answers (then with a Timeout outcome), and does not hang.
C13_BoundedTimeout == Awaiting ~> (res # NoResponse)

\* the only answers a request that reached the remote call ever gets are the
\* success body and the ExecutionFailed body: there is no Timeout outcome
C13_NoTimeoutOutcome ==
    (remoteCalls # <<>> /\ res # NoResponse) =>
        \/ res.status = 200 /\ "success" \in DOMAIN res.json
        \/ ExecutionFailed

DispatcherEndpoints == {PathRoute, QueryEndpoint, AddressEndpoint}

\* the response of a dispatcher request is one of the handler's own: a 200
\* body, the empty preflight answer, or an error object with a message
StructuredResponse ==
    (req.endpoint \in DispatcherEndpoints /\ res # NoResponse) =>
        /\ res.status \in {200, 400, 404, 405, 500}
        /\ res.status >= 400 => "error" \in DOMAIN res.json
        /\ res.status = 500 => DOMAIN res.json = {"error", "details"}
        /\ res.status = 200 =>
              \/ res.json = EmptyBody /\ req.method = "OPTIONS"
              \/ "simulation" \in DOMAIN res.json
              \/ "success" \in DOMAIN res.json
              \/ "availableActions" \in DOMAIN res.json

\* reading an argument of a null body throws a TypeError in the handler
BodyAccessThrows ==
    /\ DispatchedPost
    /\ NamedActions # {}
    /\ req.body.kind = "null"
    /\ RequestedAction.parameters.required # <<>>

CaughtAtBoundary ==
    /\ res.status = 500
    /\ DOMAIN res.json = {"error", "details"}
    /\ res.json.error = "An unexpected error occurred"

\* C14: every failure raised while the dispatcher handles a request is caught
\* at the request boundary and answered with a structured error response (a
\* null argument body read for a required name is answered 500 'An unexpected
\* error occurred'), and a request gets exactly one response: once sent, the
\* response is not replaced before the request is over.
C14_ErrorBoundary ==
    [][/\ StructuredResponse'
       /\ BodyAccessThrows' => CaughtAtBoundary'
       /\ (req.endpoint \in DispatcherEndpoints /\ res # NoResponse) =>
             /\ req' = NoRequest
             /\ res' = NoResponse]_vars

\* balanceOf posted with a null body
C14_Witness ==
    /\ BodyAccessThrows
    /\ req.action = "balanceOf"
    /\ CaughtAtBoundary
    /\ remoteCalls = <<>>

-----------------------------------------------------------------------------
(* C15 *)

\* the generated server has answered a POST for an action of its schema
ScaffoldPost ==
    /\ req.endpoint = "/contract/[action]"
    /\ res # NoResponse
    /\ \E a \in Range(ActionsOf(req.contract, "mcp")) : a.name = req.action

\* what the hosted dispatcher answers to the same action and argument
\* mapping on the same contract, the remote call settling the same way
HostedAnswer ==
    actionRouteHandler([method |-> "POST", address |-> req.contract.address,
                        schemaType |-> "mcp", action |-> req.action, body |-> req.body],
                       req.contract,
                       IF remoteCalls # <<>> THEN remoteCalls[1].result
                       ELSE CHOOSE o \in OutcomesFor(req.contract, req.action) : TRUE)

\* the action the name selects: the first of that name
PostedAction ==
    SelectSeq(ActionsOf(req.contract, "mcp"), LAMBDA a : a.name = req.action)[1]

ArgumentLists(calls) == [i \in DOMAIN calls |-> calls[i].args]

C15_SameValidationAndCalls ==
    ScaffoldPost =>
        LET hosted == HostedAnswer
            action == PostedAction
        IN  /\ (res.status = 400 \/ hosted.res.status = 400) => res = hosted.res
            /\ (SuppliesAll(action) /\ MarkerPresent(action)) =>
                   ArgumentLists(remoteCalls) = ArgumentLists(hosted.calls)
            /\ (SuppliesAll(action) /\ ~MarkerPresent(action)) =>
                   remoteCalls = <<>> /\ hosted.calls = <<>>

-----------------------------------------------------------------------------
(* C16 *)

\* an element with the members of an action: name, description, and
\* parameters with type, properties and required
WellFormedAction(a) ==
    /\ {"name", "description", "parameters"} \subseteq DOMAIN a
    /\ {"type", "properties", "required"} \subseteq DOMAIN a.parameters

WellFormedSchema(text) ==
    /\ text.kind = "array"
    /\ \A i \in DOMAIN text.json : WellFormedAction(text.json[i])

\* an element with the members the generator reads
ReadableAction(a) ==
    /\ {"name", "description", "parameters"} \subseteq DOMAIN a
    /\ {"properties", "required"} \subseteq DOMAIN a.parameters

ReadableSchema(text) ==
    /\ text.kind = "array"
    /\ \A i \in DOMAIN text.json : ReadableAction(text.json[i])

\* the POST routes are those of the actions, one each and in their order
OneRoutePerAction(posts, actions) ==
    /\ DOMAIN posts = DOMAIN actions
    /\ \A i \in DOMAIN posts :
           posts[i].method = "POST" /\ posts[i].path = "/contract/" \o actions[i].name

GenerationFailed ==
    res = [status |-> "thrown", json |-> [message |-> "Failed to generate TypeScript server"]]

LibraryCall == req.endpoint = "generateServerFiles"

C16_RoutesOfReadableSchemas ==
    /\ LibraryCall =>
          IF ReadableSchema(req.mcpSchema)
            THEN /\ res.status = "returned"
                 /\ OneRoutePerAction(res.json.index.posts, req.mcpSchema.json)
            ELSE GenerationFailed
    /\ (req.endpoint = "generate-server" /\ res.status = 200) =>
          OneRoutePerAction(res.json.files.index.posts,
                            DialectA(contracts[req.id]))

-----------------------------------------------------------------------------
(* C17 *)

\* a POST to one of the two dispatching endpoints has been answered
AnsweredPost ==
    /\ req.endpoint \in {PathRoute, QueryEndpoint}
    /\ req.method = "POST"
    /\ res # NoResponse

RequestParameterMissing ==
    req.address = "" \/ req.action = "" \/ req.schemaType \notin {"mcp", "gpt"}

SchemaLookupFails ==
    \/ RowsAtAddress = {}
    \/ (IF req.schemaType = "mcp" THEN req.contract.mcpSchema
        ELSE req.contract.gptActionSchema) = Null

ActionLookupFails == NamedActions = {}

\* the argument mapping lacks a required name of the action found
RequiredArgumentMissing ==
    /\ ~SchemaLookupFails
    /\ ~ActionLookupFails
    /\ req.body.kind # "null"
    /\ ~SuppliesAll(RequestedAction)

ParameterValidationError == res.status = 400
SchemaLookupError == ContractNotFound \/ SchemaMissing
ActionLookupError ==
    res.status = 404 /\ res.json = [error |-> "Action \"" \o req.action \o "\" not found"]

EarlyStageError == ParameterValidationError \/ SchemaLookupError \/ ActionLookupError

\* C17: the stages run in the order ParameterValidation, SchemaLookup,
\* ActionLookup and then the later stages, on both POST endpoints: a request
\* is answered with the error of the earliest stage it fails, so an invalid
\* or missing parameter is answered 400 whatever the lookups would find, a
\* lookup failure is reported only for valid parameters, and the later stages
\* are reached only when none of the three fails.
C17_StageOrder ==
    AnsweredPost =>
        IF RequestParameterMissing THEN ParameterValidationError
        ELSE IF SchemaLookupFails THEN SchemaLookupError
        ELSE IF RequiredArgumentMissing THEN ParameterValidationError
        ELSE IF ActionLookupFails THEN ActionLookupError
        ELSE ~EarlyStageError

\* the order the handlers keep: the path route checks its request parameters
\* first; the query endpoint checks address and dialect selector, looks the
\* schema up, and only then asks for the action name; both validate the
\* required arguments after ActionLookup
C17_OrderAsCoded ==
    AnsweredPost =>
        IF \/ req.address = ""
           \/ req.schemaType \notin {"mcp", "gpt"}
           \/ (req.endpoint = PathRoute /\ req.action = "")
          THEN ParameterValidationError
        ELSE IF SchemaLookupFails THEN SchemaLookupError
        ELSE IF req.action = ""
          THEN res = [status |-> 400, json |-> [error |-> "Action parameter is required"]]
        ELSE IF ActionLookupFails THEN ActionLookupError
        ELSE IF RequiredArgumentMissing THEN ParameterValidationError
        ELSE ~EarlyStageError

-----------------------------------------------------------------------------
(* C18 *)

\* the names of a compiled schema, in schema order
ActionNames(row, schemaType) ==
    [k \in DOMAIN ActionsOf(row, schemaType) |-> ActionsOf(row, schemaType)[k].name]

Distinct(names) ==
    \A j, k \in DOMAIN names : j # k => names[j] # names[k]

\* no entry of the interface definition is listed twice: functions of one
\* name differ in their argument types
DistinctSignatures(row) ==
    \A m, n \in DOMAIN AbiOf(row) :
        (m # n /\ AbiOf(row)[m].type = "function" /\ AbiOf(row)[n].type = "function"
         /\ AbiOf(row)[m].name = AbiOf(row)[n].name) =>
            [x \in DOMAIN AbiOf(row)[m].inputs |-> AbiOf(row)[m].inputs[x].type]
              # [x \in DOMAIN AbiOf(row)[n].inputs |-> AbiOf(row)[n].inputs[x].type]

\* C18: action names are unique within a contract's compiled schema, in both
\* dialects and for every interface definition, one with overloaded functions
\* included: no two actions of a persisted schema have the same name.
C18_UniqueActionNames ==
    \A i \in Generated :
        DistinctSignatures(contracts[i]) =>
            /\ Distinct(ActionNames(contracts[i], "mcp"))
            /\ Distinct(ActionNames(contracts[i], "gpt"))

\* two actions share a name only where two function entries of the interface
\* definition do: the compiler neither merges nor renames overloads
C18_SharedNamesAreOverloads ==
    \A i \in Generated :
            \A j, k \in DOMAIN DialectA(contracts[i]) :
                (j # k /\ DialectA(contracts[i])[j].name = DialectA(contracts[i])[k].name) =>
                    \E m, n \in DOMAIN AbiOf(contracts[i]) :
                        /\ m # n
                        /\ AbiOf(contracts[i])[m].type = "function"
                        /\ AbiOf(contracts[i])[n].type = "function"
                        /\ AbiOf(contracts[i])[m].name = DialectA(contracts[i])[j].name
                        /\ AbiOf(contracts[i])[n].name = DialectA(contracts[i])[j].name

-----------------------------------------------------------------------------
(* C19 *)

\* the persisted schemas and description overrides of a row
GatedColumns(row) ==
    <<row.mcpSchema, row.gptActionSchema, row.customFunctionDescriptions>>

MutatingEndpoints == {"generate-schemas", "descriptions"}

\* C19: the persisted compiled schemas and description overrides of a
\* contract change only in a step that answers a request to generate-schemas
\* or to the descriptions endpoint for that contract, made by an authenticated
\* caller who owns the contract's project; a request answered 401 or 403 by
\* either endpoint leaves every contract record unchanged.
C19_OwnerGatedWrites ==
    [][/\ \A i \in DOMAIN contracts \cap DOMAIN contracts' :
              GatedColumns(contracts'[i]) # GatedColumns(contracts[i]) =>
                  /\ req'.endpoint \in MutatingEndpoints
                  /\ req'.id = i
                  /\ req'.user # NoUser
                  /\ req'.user = ProjectOwner[contracts[i].projectId]
       /\ (req'.endpoint \in MutatingEndpoints /\ res'.status \in {401, 403}) =>
              contracts' = contracts]_vars

\* a non-owner's write to the description overrides of a contract with
\* generated schemas is refused
C19_Witness ==
    /\ req.endpoint = "descriptions"
    /\ req.method = "PUT"
    /\ req.user = "bob"
    /\ res.status = 403
    /\ 1 \in Generated
    /\ contracts[1].customFunctionDescriptions # Null

-----------------------------------------------------------------------------
(* C20 *)

PlaceholderName == "param"

\* the function entries with an input field whose name is empty
EntriesWithUnnamedInput(row) ==
    {e \in Range(AbiOf(row)) :
        e.type = "function" /\ \E i \in DOMAIN e.inputs : e.inputs[i].name = ""}

\* the persisted actions compiled from an entry: same name, as many required
\* arguments as the entry has inputs
ActionsCompiledFrom(row, e) ==
    {a \in Range(DialectA(row)) :
        a.name = e.name /\ Len(a.parameters.required) = Len(e.inputs)}

\* C20: an input field with an empty name gets the placeholder name, and the
\* compiled action addresses its descriptor by that name: at the field's
\* position `required` holds the placeholder, not the empty string, and
\* parameters.properties has the descriptor under the placeholder key, so no
\* key of properties and no entry of required is empty.
C20_PlaceholderKeys ==
    \A i \in Generated :
        \A e \in EntriesWithUnnamedInput(contracts[i]) :
            \A a \in ActionsCompiledFrom(contracts[i], e) :
                /\ "" \notin DOMAIN a.parameters.properties
                /\ \A k \in DOMAIN e.inputs :
                      e.inputs[k].name = "" =>
                          /\ a.parameters.required[k] = PlaceholderName
                          /\ PlaceholderName \in DOMAIN a.parameters.properties

\* the Type Mapper's half: the descriptor of an unnamed field is named with
\* the placeholder, though it is stored under the empty key
C20_DescriptorNamed ==
    \A i \in Generated :
        \A e \in EntriesWithUnnamedInput(contracts[i]) :
            \A a \in ActionsCompiledFrom(contracts[i], e) :
                /\ "" \in DOMAIN a.parameters.properties
                /\ a.parameters.properties[""].name = PlaceholderName

-----------------------------------------------------------------------------
(* C21 *)

\* the Type Mapper has mapped a field
Mapped == req.endpoint = "processABIParameter" /\ res # NoResponse

\* items exactly on arrays, properties exactly on objects, never both
Shaped(d) ==
    /\ ("items" \in DOMAIN d) <=> (d.type = "array")
    /\ ("properties" \in DOMAIN d) <=> (d.type = "object")
    /\ ~("items" \in DOMAIN d /\ "properties" \in DOMAIN d)

RECURSIVE ShapedAtEveryDepth(_)
\* the descriptor, its items template and its properties, all the way down
ShapedAtEveryDepth(d) ==
    /\ Shaped(d)
    /\ "items" \in DOMAIN d => ShapedAtEveryDepth(d.items)
    /\ "properties" \in DOMAIN d =>
           \A k \in DOMAIN d.properties : ShapedAtEveryDepth(d.properties[k])

RECURSIVE ShapedFields(_)
\* the descriptors of fields only: an items template is looked through, not at
ShapedFields(d) ==
    /\ Shaped(d)
    /\ ("items" \in DOMAIN d /\ "properties" \in DOMAIN d.items) =>
           \A k \in DOMAIN d.items.properties : ShapedFields(d.items.properties[k])
    /\ "properties" \in DOMAIN d =>
           \A k \in DOMAIN d.properties : ShapedFields(d.properties[k])

\* C21: every descriptor the Type Mapper produces, at every nesting depth,
\* has items exactly when its type is 'array' and properties exactly when its
\* type is 'object', and never both.
C21_ItemsAndProperties ==
    Mapped => ShapedAtEveryDepth(res.json)

\* the descriptor of every field and of every component is so shaped; only an
\* items template can be an 'array' without items of its own
C21_FieldDescriptorsShaped ==
    Mapped => ShapedFields(res.json)

-----------------------------------------------------------------------------
(* C22 *)

\* the tag ends in an array marker
EndsInArrayMarker(t) ==
    t \in {"uint256[]", "uint256[][]", "tuple[]", "tuple[][]", "function[]", "function[][]"}

\* the tag with one trailing array marker stripped
ElementType(t) ==
    CASE t = "uint256[]"    -> "uint256"
      [] t = "uint256[][]"  -> "uint256[]"
      [] t = "tuple[]"      -> "tuple"
      [] t = "tuple[][]"    -> "tuple[]"
      [] t = "function[]"   -> "function"
      [] t = "function[][]" -> "function[]"

\* the JSON type of a scalar tag
ScalarJsonType(t) ==
    IF t \in {"uint256", "uint8", "int256"} THEN "integer"
    ELSE IF t = "bool" THEN "boolean"
    ELSE "string"

RECURSIVE MapsElementType(_, _, _)
\* `template` is what mapping a field of tag t with these components gives,
\* as far as type, items and the names of properties go
MapsElementType(template, t, components) ==
    IF EndsInArrayMarker(t)
      THEN /\ template.type = "array"
           /\ "items" \in DOMAIN template
           /\ MapsElementType(template.items, ElementType(t), components)
    ELSE IF components # <<>>
      THEN /\ template.type = "object"
           /\ "properties" \in DOMAIN template
           /\ DOMAIN template.properties = {components[i].name : i \in DOMAIN components}
    ELSE template.type = ScalarJsonType(t)

\* C22: a field whose type tag ends in an array marker gets type 'array' and
\* an items descriptor that is the mapping of the element type, the tag with
\* one trailing marker stripped: an array of arrays of T maps to an array
\* whose items is an array descriptor with items mapped from T.
C22_ItemsMappedRecursively ==
    (Mapped /\ EndsInArrayMarker(req.param.type)) =>
        MapsElementType(res.json, req.param.type, req.param.components)

\* one level is right: a field with one array marker is an 'array' whose
\* items has the type of the element, and every marked field is an 'array'
\* with items
C22_OneLevelOfItems ==
    (Mapped /\ EndsInArrayMarker(req.param.type)) =>
        /\ res.json.type = "array"
        /\ "items" \in DOMAIN res.json
        /\ ~EndsInArrayMarker(ElementType(req.param.type)) =>
               MapsElementType(res.json, req.param.type, req.param.components)

-----------------------------------------------------------------------------
(* C23 *)

\* the default description of a field has been generated
Described == req.endpoint = "generateParamDescription" /\ res # NoResponse

\* the name the description speaks of
DescribedName(generator) ==
    IF generator = "compiler" /\ req.param.name = "" THEN "param" ELSE req.param.name

IntegerLike == {"uint256", "uint8", "int256"}

\* the description of the class the type is in
ClassDescription(type, name) ==
    IF type \in IntegerLike THEN <<"Numeric value for ", name>>
    ELSE IF type = "bool" THEN <<"Boolean flag for ", name>>
    ELSE IF type = "address" THEN <<"Ethereum address for ", name>>
    ELSE IF type = "string" THEN <<"String value for ", name>>
    ELSE IF type = "bytes32" THEN <<"Bytes data for ", name>>
    ELSE <<"Parameter ", name, " of type ", type>>

ScalarTag(type) == type \in IntegerLike \cup {"bool", "address", "string", "bytes32", "function"}

\* C23: the default description of a field is selected by its type class, in
\* the compiler and in the editor: an integer of any width and signedness
\* gets the numeric-value description, a boolean the boolean-flag one, an
\* address the address one, a string the string-value one, a byte sequence
\* the byte-data one, and only a type of none of these classes the fallback
\* 'Parameter <name> of type <type>'.
C23_DescriptionByTypeClass ==
    (Described /\ ScalarTag(req.param.type)) =>
        /\ res.json.compiler = ClassDescription(req.param.type, DescribedName("compiler"))
        /\ res.json.editor = ClassDescription(req.param.type, DescribedName("editor"))

\* what the generators do: the numeric description goes to uint256 alone and
\* every other integer type gets the fallback; the other classes are
\* described as claimed, and the two generators differ only in the
\* placeholder name of an unnamed field
C23_NumericForUint256Only ==
    (Described /\ ScalarTag(req.param.type)) =>
        LET expected(name) ==
                IF req.param.type \in IntegerLike \ {"uint256"}
                  THEN <<"Parameter ", name, " of type ", req.param.type>>
                  ELSE ClassDescription(req.param.type, name)
        IN  /\ res.json.compiler = expected(DescribedName("compiler"))
            /\ res.json.editor = expected(DescribedName("editor"))

-----------------------------------------------------------------------------
(* C24 *)

\* a dispatched POST has invoked the remote function
RemoteInvoked == DispatchedPost /\ NamedActions # {} /\ remoteCalls # <<>>

\* the values the argument mapping holds for the names, in their order
ValuesInOrder(names) == [i \in DOMAIN names |-> req.body.json[names[i]]]

\* C24: in ReadExecution the remote function is invoked with exactly
\* len(required) positional arguments, the i-th being the value the argument
\* mapping holds for the i-th name of the action's required list, whatever
\* other keys the request body has.
C24_PositionalArguments ==
    RemoteInvoked =>
        \A c \in Range(remoteCalls) :
            /\ c.function = req.action
            /\ Len(c.args) = Len(RequestedAction.parameters.required)
            /\ c.args = ValuesInOrder(RequestedAction.parameters.required)

\* fill(order, ids) posted with a body that has a further key
C24_Witness ==
    /\ RemoteInvoked
    /\ req.action = "fill"
    /\ DOMAIN req.body.json = {"ids", "memo", "order"}
    /\ RequestedAction.parameters.required = <<"order", "ids">>
    /\ remoteCalls[1].args = <<"o1", "i1">>
    /\ res.status = 200

-----------------------------------------------------------------------------
(* C25 *)

\* the endpoint configured for a network identifier, the primary network's
\* for an identifier that is not recognized
EndpointOf(network) ==
    CASE network = "mainnet" -> "MAINNET_RPC_URL"
      [] network = "goerli"  -> "GOERLI_RPC_URL"
      [] network = "sepolia" -> "SEPOLIA_RPC_URL"
      [] OTHER               -> "MAINNET_RPC_URL"

\* C25: the endpoint a request's remote call goes to is a function of the
\* contract record's network identifier only: mainnet, goerli and sepolia
\* select their own configured endpoint, every other identifier the mainnet
\* endpoint, whatever the request's address, dialect, action and body are.
C25_EndpointByNetwork ==
    req.endpoint \in {PathRoute, QueryEndpoint} =>
        \A c \in Range(remoteCalls) : c.endpoint = EndpointOf(req.contract.network)

\* a read on a contract recorded with a network that is not recognized
C25_Witness ==
    /\ req.endpoint \in {PathRoute, QueryEndpoint}
    /\ remoteCalls # <<>>
    /\ req.contract.network = "polygon"
    /\ remoteCalls[1].endpoint = "MAINNET_RPC_URL"
    /\ res.status = 200

\* a read on a contract of a recognized network other than the primary one
C25_WitnessRecognized ==
    /\ req.endpoint \in {PathRoute, QueryEndpoint}
    /\ remoteCalls # <<>>
    /\ req.contract.network = "sepolia"
    /\ remoteCalls[1].endpoint = "SEPOLIA_RPC_URL"

-----------------------------------------------------------------------------
(* C26 *)

\* the step in which the editor initializes from a parsable interface
\* definition
Initializes ==
    /\ editor = NoEditor
    /\ editor' # NoEditor
    /\ contracts[editor'.contractId].abiJson.kind = "array"

\* the function entries and the stored override set the editor starts from
EditorEntries(id) ==
    {e \in Range(AbiOf(contracts[id])) : e.type = "function"}

OverridesOf(id) ==
    IF contracts[id].customFunctionDescriptions = Null THEN EmptyObject
    ELSE contracts[id].customFunctionDescriptions

\* the override mentions the input of the function
Mentions(overrides, fn, input) ==
    /\ fn \in DOMAIN overrides
    /\ "inputs" \in DOMAIN overrides[fn]
    /\ input \in DOMAIN overrides[fn].inputs

EditorDefault(input) == generateDefaultParamDescription(input.name, input.type)

\* C26: when the editor initializes from an interface definition and a stored
\* override set, its state holds a description entry for every input of
\* every function: the override's description where the override mentions
\* the input, the generated default otherwise, also for a function whose
\* override mentions only some inputs or only the function's description.
C26_NoFieldDropped ==
    [][Initializes =>
         \A e \in EditorEntries(editor'.contractId) :
             /\ e.name \in DOMAIN editor'.editedDescriptions
             /\ \A i \in DOMAIN e.inputs :
                   LET entry == editor'.editedDescriptions[e.name]
                       input == e.inputs[i]
                       overrides == OverridesOf(editor'.contractId)
                   IN  /\ "inputs" \in DOMAIN entry
                       /\ input.name \in DOMAIN entry.inputs
                       /\ entry.inputs[input.name].description
                             = IF Mentions(overrides, e.name, input.name)
                               THEN overrides[e.name].inputs[input.name].description
                               ELSE EditorDefault(input)]_vars

\* what the initialization does: a function the override set names gets the
\* override's entry as it is, with the inputs that entry has and no others;
\* a function it does not name gets an entry for every input, with the
\* generated default
C26_OverrideTakenWhole ==
    [][Initializes =>
         \A e \in EditorEntries(editor'.contractId) :
             LET overrides == OverridesOf(editor'.contractId)
             IN  /\ e.name \in DOMAIN editor'.editedDescriptions
                 /\ e.name \in DOMAIN overrides =>
                       editor'.editedDescriptions[e.name] = overrides[e.name]
                 /\ e.name \notin DOMAIN overrides =>
                       \A i \in DOMAIN e.inputs :
                           e.inputs[i].name
                              \in DOMAIN editor'.editedDescriptions[e.name].inputs]_vars

-----------------------------------------------------------------------------
(* C27 *)

\* the interface entry in memory that a reset of the name uses, if any
Known(name) == \E i \in DOMAIN editor.functions : editor.functions[i].name = name

InMemory(name) ==
    editor.functions[CHOOSE i \in DOMAIN editor.functions :
                        /\ editor.functions[i].name = name
                        /\ \A j \in 1..(i - 1) : editor.functions[j].name # name]

\* the entry of the name in the descriptions is the generated default of
\* the interface entry in memory, for the function and for each input
AtDefaults(descriptions, name) ==
    LET f == InMemory(name)
    IN  /\ name \in DOMAIN descriptions
        /\ DOMAIN descriptions[name] = {"description", "inputs"}
        /\ descriptions[name].description = generateDefaultFunctionDescription(f)
        /\ DOMAIN descriptions[name].inputs = {f.inputs[i].name : i \in DOMAIN f.inputs}
        /\ \A i \in DOMAIN f.inputs :
              descriptions[name].inputs[f.inputs[i].name].description
                 = generateDefaultParamDescription(f.inputs[i].name, f.inputs[i].type)

ResetEffect(name) ==
    /\ UNCHANGED <<contracts, req, res, remoteCalls>>
    /\ editor'.functions = editor.functions
    /\ editor'.contractId = editor.contractId
    /\ IF Known(name)
         THEN /\ AtDefaults(editor'.editedDescriptions, name)
              /\ DOMAIN editor'.editedDescriptions
                    = DOMAIN editor.editedDescriptions \cup {name}
              /\ \A other \in DOMAIN editor.editedDescriptions \ {name} :
                    editor'.editedDescriptions[other] = editor.editedDescriptions[other]
              /\ AtDefaults(editor.editedDescriptions, name) => editor' = editor
         ELSE editor' = editor

\* C27: resetting a function in the editor sets its description and each of
\* its input descriptions to the defaults generated from the interface entry
\* in memory, with no request and no write to the stored record, leaves the
\* other functions' descriptions as they were, changes nothing when the
\* function is at its defaults already, and changes nothing for a name that
\* is no known function.
C27_ResetToDefaults ==
    [][Reset => \E name \in Rendered \cup {"mint"} : ResetEffect(name)]_vars

\* the stored record overrides transfer, and the editor holds transfer at
\* its defaults next to another function's entry: a reset has acted
C27_Witness ==
    /\ editor # NoEditor
    /\ contracts[editor.contractId].customFunctionDescriptions = SampleOverrides
    /\ Known("transfer")
    /\ AtDefaults(editor.editedDescriptions, "transfer")
    /\ Known("balanceOf")
    /\ "balanceOf" \in DOMAIN editor.editedDescriptions

-----------------------------------------------------------------------------
(* C28 *)

\* the rows of the table that have not been deleted
Stored(table) == {i \in DOMAIN table : table[i] # Null}

BothAbsent(row) == row.mcpSchema = Null /\ row.gptActionSchema = Null

\* both schemas are there, the second the envelope of the first, and they
\* are what the interface definition of the row compiles to
BothCompiled(row) ==
    /\ OneCompilation(row.mcpSchema, row.gptActionSchema)
    /\ row.mcpSchema = abiToMCPSchema(row.abiJson)
    /\ row.gptActionSchema = abiToGPTActionSchema(row.abiJson)

\* a step changes the one schema column of a row exactly if it changes the other
WritesBothOrNeither ==
    \A i \in Stored(contracts) \cap Stored(contracts') :
        (contracts'[i].mcpSchema # contracts[i].mcpSchema)
           <=> (contracts'[i].gptActionSchema # contracts[i].gptActionSchema)

\* C28: after any sequence of import, rename, delete, description update and
\* generate-schemas requests, every stored contract has both schemas absent or
\* both present; when present, the Dialect-B schema is the envelope transform
\* of the Dialect-A schema and both are the compilation of the row's
\* interface definition; and no request writes one schema column of a row
\* without the other.
C28_SchemasInStep ==
    /\ [](\A i \in Stored(contracts) :
             BothAbsent(contracts[i]) \/ BothCompiled(contracts[i]))
    /\ [][WritesBothOrNeither]_vars

\* a contract that was compiled, given overrides and renamed, next to one
\* that has no schemas
C28_Witness ==
    /\ req.endpoint = "contracts/[id]"
    /\ res.status = 200
    /\ \E i \in Stored(contracts) :
          /\ contracts[i].name = "Renamed"
          /\ contracts[i].customFunctionDescriptions = SampleOverrides
          /\ BothCompiled(contracts[i])
          /\ Len(contracts[i].mcpSchema.json) > 0
    /\ \E j \in Stored(contracts) : BothAbsent(contracts[j])

-----------------------------------------------------------------------------
(* C29 *)

\* a step of a dispatcher request: the handler starts, or its remote call
\* settles
DispatcherStarts ==
    /\ req = NoRequest
    /\ req'.endpoint \in DispatcherEndpoints

DispatcherResumes ==
    /\ req.endpoint \in DispatcherEndpoints
    /\ req' = req
    /\ <<res', remoteCalls'>> # <<res, remoteCalls>>

\* what the one read of the record can return for the address
ReadResults(address) ==
    LET hits == {i \in DOMAIN contracts :
                    toLowerCase(contracts[i].address) = toLowerCase(address)}
    IN  IF hits = {} THEN {Null} ELSE {contracts[i] : i \in hits}

\* the response and the remote calls the handler of the endpoint computes from
\* the request, the row it has read and the outcome of its remote call
Served(r, outcome) ==
    IF r.endpoint = QueryEndpoint THEN queryRouteHandler(r, r.contract, outcome)
    ELSE IF r.endpoint = PathRoute THEN actionRouteHandler(r, r.contract, outcome)
    ELSE addressRouteHandler(r, r.contract)

C29_WitnessOtherMethods ==
    /\ req.endpoint \in DispatcherEndpoints
    /\ req.method \in {"OPTIONS", "GET"}
    /\ res # NoResponse
    /\ Len(contracts) > 0

-----------------------------------------------------------------------------
(* C30 *)

\* a POST on the query endpoint has been answered
QueryPostAnswered ==
    /\ req.endpoint = QueryEndpoint
    /\ req.method = "POST"
    /\ res # NoResponse

\* what the path endpoint answers to the same address, dialect selector,
\* action and argument body on the same row, the remote call settling the
\* same way
PathAnswer ==
    actionRouteHandler([method |-> "POST", address |-> req.address,
                        schemaType |-> req.schemaType, action |-> req.action,
                        body |-> req.body],
                       req.contract,
                       IF remoteCalls # <<>> THEN remoteCalls[1].result ELSE Pending)

\* C30: the query-parameter POST endpoint and the path-parameter POST
\* endpoint answer the same address, dialect selector, action and argument
\* body, invalid and missing values included, with the same status code and
\* the same response body on the same stored state.
C30_EndpointsEquivalent ==
    QueryPostAnswered => res = PathAnswer.res

\* the part of C30 that holds: with an action name in the request the two
\* endpoints give the same answer and make the same remote calls, and
\* without one both refuse, the path endpoint always with 400
C30_EquivalentWithAction ==
    QueryPostAnswered =>
        IF req.action # ""
          THEN /\ res = PathAnswer.res
               /\ remoteCalls = PathAnswer.calls
          ELSE /\ res.status \in {400, 404}
               /\ PathAnswer.res.status = 400

====
